---- MODULE Spec2Model ----
(***************************************************************************)
(* State-machine model of the MCMC samplers (RWMH, HMC, NUTS, MALA,        *)
(* Gibbs), the Visualizer event queue and its fold, and the Simulation     *)
(* driver.  Real numbers are fixed-point integers with Scale units per 1.0 *)
(* (a coordinate 50 is 0.5); every random draw of the code is an input     *)
(* taken from a small named set.                                           *)
(***************************************************************************)
EXTENDS Integers, Sequences, FiniteSets, TLC

VARIABLES algorithm, distribution, visualizer, isRunning, totalSamples,
          animationId, hist, timers, created, probe

vars == <<algorithm, distribution, visualizer, isRunning, totalSamples,
          animationId, hist, timers, created, probe>>

---------------------------------------------------------------------------
(* Bounds of the model *)

\* fixed-point resolution: Scale units are 1.0
Scale == 100
\* Simulation.step is modelled while totalSamples < MaxSteps
MaxSteps == 2
\* NUTS.step is modelled while maxTreeDepth <= MaxTreeDepthModelled
MaxTreeDepthModelled == 2

---------------------------------------------------------------------------
(* Optional values: null is the empty sequence, a value v is <<v>> *)

Null == <<>>
Some(v) == <<v>>
IsNull(o) == o = <<>>
Val(o) == o[1]

Origin == [x |-> 0, y |-> 0]
Pt(a, b) == [x |-> a, y |-> b]

---------------------------------------------------------------------------
(* Fixed-point arithmetic *)

FxMul(a, b) == (a * b) \div Scale
FxDiv(a, b) == (a * Scale) \div b

\* min(1, Math.exp(v)) as a step function: 2^-floor(-v / ln 2) for v < 0
ExpLe1(v) ==
  LET k == ((0 - v) * 100) \div (69 * Scale)
  IN IF v >= 0 THEN Scale ELSE IF k > 20 THEN 0 ELSE Scale \div (2 ^ k)

\* Math.sqrt, rounded down
SqrtFx(a) == CHOOSE r \in 0..(4 * Scale) : r * r <= a * Scale /\ (r + 1) * (r + 1) > a * Scale

---------------------------------------------------------------------------
(* Random draws: the values Math.random(), Math.log(Math.random()) and    *)
(* randn() take in the model                                              *)

UnifDraws == {0, Scale \div 2}
JitterDraws == {Scale \div 2}
SelectDraws == {Scale \div 2}
LogUDraws == {0 - 2 * Scale, 0 - 1}
RandnDraws == {Scale}

---------------------------------------------------------------------------
(* Distributions *)

Distributions == {"gaussian"}

Bounds(d) == [xMin |-> 0 - 4 * Scale, xMax |-> 4 * Scale,
              yMin |-> 0 - 4 * Scale, yMax |-> 4 * Scale]

\* StandardGaussian.density: exp(-0.5 (x^2 + y^2))
Density(d, p) == ExpLe1(0 - ((p.x * p.x + p.y * p.y) \div (2 * Scale)))

\* Distribution.logDensity of the Gaussian: ln(exp(-0.5 r^2) + 1e-300)
LogDensity(d, p) == 0 - ((p.x * p.x + p.y * p.y) \div (2 * Scale))

\* StandardGaussian.gradient
Gradient(d, p) == Pt(0 - p.x, 0 - p.y)

---------------------------------------------------------------------------
(* Samplers *)

Kinds == {"rwmh", "hmc", "nuts", "mala", "gibbs"}
MHKinds == {"rwmh", "hmc", "nuts", "mala"}

DefaultSigma == Scale \div 2
DefaultEpsilonHMC == Scale \div 10
DefaultL == 20
DefaultEpsilonNUTS == Scale \div 10
DefaultMaxTreeDepth == 10
DefaultDeltaMax == 1000 * Scale
DefaultEpsilonMALA == (3 * Scale) \div 10
DefaultGridResolution == 200

\* a sampler object as its constructor leaves it (field initialisers)
NewSampler(kind) ==
  [kind |-> kind, distribution |-> "null", chain |-> <<>>,
   acceptCount |-> 0, totalSteps |-> 0,
   sigma |-> IF kind = "rwmh" THEN DefaultSigma ELSE 0,
   epsilon |-> CASE kind = "hmc" -> DefaultEpsilonHMC
                 [] kind = "nuts" -> DefaultEpsilonNUTS
                 [] kind = "mala" -> DefaultEpsilonMALA
                 [] OTHER -> 0,
   L |-> IF kind = "hmc" THEN DefaultL ELSE 0,
   maxTreeDepth |-> IF kind = "nuts" THEN DefaultMaxTreeDepth ELSE 0,
   deltaMax |-> IF kind = "nuts" THEN DefaultDeltaMax ELSE 0,
   gridResolution |-> IF kind = "gibbs" THEN DefaultGridResolution ELSE 0]

NoAlgorithm == [kind |-> "null"]
HasAlgorithm == algorithm.kind # "null"

SamplerSetDistribution(s, d) == [s EXCEPT !.distribution = d]

\* init() of the five classes
SamplerInit(s) ==
  CASE s.kind = "rwmh" -> [s EXCEPT !.sigma = DefaultSigma]
    [] s.kind = "hmc" -> [s EXCEPT !.epsilon = DefaultEpsilonHMC, !.L = DefaultL]
    [] s.kind = "nuts" -> [s EXCEPT !.epsilon = DefaultEpsilonNUTS,
                                    !.maxTreeDepth = DefaultMaxTreeDepth]
    [] s.kind = "mala" -> [s EXCEPT !.epsilon = DefaultEpsilonMALA]
    [] s.kind = "gibbs" -> [s EXCEPT !.gridResolution = DefaultGridResolution]

\* reset that ignores its argument and always starts at the origin
SamplerResetAtOrigin(s, initialPosition) ==
  [s EXCEPT !.chain = <<Origin>>, !.acceptCount = 0, !.totalSteps = 0]

\* reset that starts a new chain and keeps the counters
SamplerResetKeepCounts(s, initialPosition) ==
  LET startPos == IF IsNull(initialPosition) THEN Origin ELSE Val(initialPosition)
  IN [s EXCEPT !.chain = <<startPos>>]

\* reset(initialPosition?) of the five classes; Gibbs keeps no counters
SamplerReset(s, initialPosition) ==
  LET startPos == IF IsNull(initialPosition) THEN Origin ELSE Val(initialPosition)
  IN [s EXCEPT !.chain = <<startPos>>, !.acceptCount = 0, !.totalSteps = 0]

Last(seq) == seq[Len(seq)]

ProposalEvent(from, to, radius) ==
  [type |-> "proposal", from |-> from, to |-> to, radius |-> radius]
AcceptEvent(p) == [type |-> "accept", position |-> p]
RejectEvent(p) == [type |-> "reject", position |-> p]
TrajectoryEvent(path, momentum) ==
  [type |-> "trajectory", path |-> path, momentum |-> momentum]
LangevinEvent(g, drift, r) ==
  [type |-> "langevin", gradient |-> g, driftPoint |-> drift, noiseRadius |-> r]

NoStep(s) == [s |-> s, events |-> <<>>]
CannotStep(s) == s.distribution = "null" \/ Len(s.chain) = 0

\* RandomWalkMH.step that appends nothing to the chain on a rejection
RandomWalkMHStepNoRepeat(s, rx, ry, logU) ==
  IF s.distribution = "null" \/ Len(s.chain) = 0 THEN [s |-> s, events |-> <<>>]
  ELSE
    LET current == s.chain[Len(s.chain)]
        proposal == Pt(current.x + FxMul(rx, s.sigma), current.y + FxMul(ry, s.sigma))
        logAlpha == LogDensity(s.distribution, proposal) - LogDensity(s.distribution, current)
        pushed == <<ProposalEvent(current, proposal, s.sigma)>>
    IN IF logU < logAlpha
       THEN [s |-> [s EXCEPT !.chain = Append(@, proposal),
                             !.acceptCount = @ + 1,
                             !.totalSteps = @ + 1],
             events |-> Append(pushed, AcceptEvent(proposal))]
       ELSE [s |-> [s EXCEPT !.totalSteps = @ + 1],
             events |-> Append(pushed, RejectEvent(proposal))]

\* RandomWalkMH.step that pushes the accept or reject event without a proposal
RandomWalkMHStepNoProposal(s, rx, ry, logU) ==
  IF s.distribution = "null" \/ Len(s.chain) = 0 THEN [s |-> s, events |-> <<>>]
  ELSE
    LET current == s.chain[Len(s.chain)]
        proposal == Pt(current.x + FxMul(rx, s.sigma), current.y + FxMul(ry, s.sigma))
        logAlpha == LogDensity(s.distribution, proposal) - LogDensity(s.distribution, current)
    IN IF logU < logAlpha
       THEN [s |-> [s EXCEPT !.chain = Append(@, proposal),
                             !.acceptCount = @ + 1,
                             !.totalSteps = @ + 1],
             events |-> <<AcceptEvent(proposal)>>]
       ELSE [s |-> [s EXCEPT !.chain = Append(@, current),
                             !.totalSteps = @ + 1],
             events |-> <<RejectEvent(proposal)>>]

\* RandomWalkMH.step with randn() draws rx, ry and Math.log(Math.random()) = logU
RandomWalkMHStep(s, rx, ry, logU) ==
  IF CannotStep(s) THEN NoStep(s)
  ELSE
    LET current == Last(s.chain)
        proposal == Pt(current.x + FxMul(rx, s.sigma), current.y + FxMul(ry, s.sigma))
        logAlpha == LogDensity(s.distribution, proposal) - LogDensity(s.distribution, current)
        accept == logU < logAlpha
        pushed == <<ProposalEvent(current, proposal, s.sigma)>>
    IN IF accept
       THEN [s |-> [s EXCEPT !.chain = Append(@, proposal),
                             !.acceptCount = @ + 1,
                             !.totalSteps = @ + 1],
             events |-> Append(pushed, AcceptEvent(proposal))]
       ELSE [s |-> [s EXCEPT !.chain = Append(@, current),
                             !.totalSteps = @ + 1],
             events |-> Append(pushed, RejectEvent(proposal))]

\* kineticEnergy: 0.5 (p.x^2 + p.y^2)
KineticEnergy(p) == (p.x * p.x + p.y * p.y) \div (2 * Scale)

\* potentialEnergy: -logDensity(q)
PotentialEnergy(d, q) == 0 - LogDensity(d, q)

Hamiltonian(d, q, p) == PotentialEnergy(d, q) + KineticEnergy(p)

\* one leapfrog step of (signed) size epsilon: half step of the momentum,
\* full step of the position, half step of the momentum
Leapfrog(d, q, p, epsilon) ==
  LET grad == Gradient(d, q)
      pHalf == Pt(p.x + (epsilon * grad.x) \div (2 * Scale),
                  p.y + (epsilon * grad.y) \div (2 * Scale))
      qNew == Pt(q.x + FxMul(epsilon, pHalf.x), q.y + FxMul(epsilon, pHalf.y))
      gradNew == Gradient(d, qNew)
      pNew == Pt(pHalf.x + (epsilon * gradNew.x) \div (2 * Scale),
                 pHalf.y + (epsilon * gradNew.y) \div (2 * Scale))
  IN [q |-> qNew, p |-> pNew]

\* the for loop of HamiltonianMC.step: i leapfrog steps left, path so far
RECURSIVE LeapfrogLoop(_, _, _, _, _, _)
LeapfrogLoop(d, q, p, epsilon, i, trajectory) ==
  IF i <= 0 THEN [q |-> q, p |-> p, trajectory |-> trajectory]
  ELSE LET result == Leapfrog(d, q, p, epsilon)
       IN LeapfrogLoop(d, result.q, result.p, epsilon, i - 1,
                       Append(trajectory, result.q))

\* a HamiltonianMC.step whose recorded path leaves out the starting point
HamiltonianMCStepPathWithoutStart(s, rx, ry, logU) ==
  IF s.distribution = "null" \/ Len(s.chain) = 0 THEN [s |-> s, events |-> <<>>]
  ELSE
    LET current == s.chain[Len(s.chain)]
        p0 == Pt(rx, ry)
        currentH == PotentialEnergy(s.distribution, current) + KineticEnergy(p0)
        run == LeapfrogLoop(s.distribution, current, p0, s.epsilon, s.L, <<>>)
        p == Pt(0 - run.p.x, 0 - run.p.y)
        proposedH == PotentialEnergy(s.distribution, run.q) + KineticEnergy(p)
        pushed == <<TrajectoryEvent(run.trajectory, Null),
                    ProposalEvent(current, run.q, 0)>>
    IN IF logU < currentH - proposedH
       THEN [s |-> [s EXCEPT !.chain = Append(@, run.q),
                             !.acceptCount = @ + 1,
                             !.totalSteps = @ + 1],
             events |-> Append(pushed, AcceptEvent(run.q))]
       ELSE [s |-> [s EXCEPT !.chain = Append(@, current),
                             !.totalSteps = @ + 1],
             events |-> Append(pushed, RejectEvent(run.q))]

\* HamiltonianMC.step with momentum draws rx, ry and Math.log(Math.random()) = logU
\* (isFinite(proposedH) of the acceptance test holds: the energies of the
\* Gaussian are finite)
HamiltonianMCStep(s, rx, ry, logU) ==
  IF CannotStep(s) THEN NoStep(s)
  ELSE
    LET current == Last(s.chain)
        p0 == Pt(rx, ry)
        currentH == PotentialEnergy(s.distribution, current) + KineticEnergy(p0)
        run == LeapfrogLoop(s.distribution, current, p0, s.epsilon, s.L, <<current>>)
        q == run.q
        p == Pt(0 - run.p.x, 0 - run.p.y)
        proposedH == PotentialEnergy(s.distribution, q) + KineticEnergy(p)
        logAlpha == currentH - proposedH
        accept == logU < logAlpha
        pushed == <<TrajectoryEvent(run.trajectory, Null),
                    ProposalEvent(current, q, 0)>>
    IN IF accept
       THEN [s |-> [s EXCEPT !.chain = Append(@, q),
                             !.acceptCount = @ + 1,
                             !.totalSteps = @ + 1],
             events |-> Append(pushed, AcceptEvent(q))]
       ELSE [s |-> [s EXCEPT !.chain = Append(@, current),
                             !.totalSteps = @ + 1],
             events |-> Append(pushed, RejectEvent(q))]

\* LangevinMC.proposalMean: q + (epsilon / 2) gradient(q)
ProposalMean(s, q) ==
  LET grad == Gradient(s.distribution, q)
  IN Pt(q.x + (s.epsilon * grad.x) \div (2 * Scale),
        q.y + (s.epsilon * grad.y) \div (2 * Scale))

\* LangevinMC.logProposalDensity: -|to - mean(from)|^2 / (2 epsilon)
LogProposalDensity(s, from, to) ==
  LET mean == ProposalMean(s, from)
      dx == to.x - mean.x
      dy == to.y - mean.y
  IN 0 - ((dx * dx + dy * dy) \div (2 * s.epsilon))

\* LangevinMC.step that appends the proposal to the chain on a rejection too
LangevinMCStepKeepProposal(s, rx, ry, logU) ==
  IF s.distribution = "null" \/ Len(s.chain) = 0 THEN [s |-> s, events |-> <<>>]
  ELSE
    LET current == s.chain[Len(s.chain)]
        mean == ProposalMean(s, current)
        sqrtEps == SqrtFx(s.epsilon)
        proposal == Pt(mean.x + FxMul(rx, sqrtEps), mean.y + FxMul(ry, sqrtEps))
        logAlpha == LogDensity(s.distribution, proposal)
                    - LogDensity(s.distribution, current)
                    + LogProposalDensity(s, proposal, current)
                    - LogProposalDensity(s, current, proposal)
        pushed == <<LangevinEvent(Gradient(s.distribution, current), mean, sqrtEps),
                    ProposalEvent(current, proposal, 0)>>
    IN IF logU < logAlpha
       THEN [s |-> [s EXCEPT !.chain = Append(@, proposal),
                             !.acceptCount = @ + 1,
                             !.totalSteps = @ + 1],
             events |-> Append(pushed, AcceptEvent(proposal))]
       ELSE [s |-> [s EXCEPT !.chain = Append(@, proposal),
                             !.totalSteps = @ + 1],
             events |-> Append(pushed, RejectEvent(proposal))]

\* a LangevinMC.step that pushes its langevin event after the proposal event
LangevinMCStepLateLangevin(s, rx, ry, logU) ==
  IF s.distribution = "null" \/ Len(s.chain) = 0 THEN [s |-> s, events |-> <<>>]
  ELSE
    LET current == s.chain[Len(s.chain)]
        mean == ProposalMean(s, current)
        sqrtEps == SqrtFx(s.epsilon)
        proposal == Pt(mean.x + FxMul(rx, sqrtEps), mean.y + FxMul(ry, sqrtEps))
        logAlpha == LogDensity(s.distribution, proposal)
                    - LogDensity(s.distribution, current)
                    + LogProposalDensity(s, proposal, current)
                    - LogProposalDensity(s, current, proposal)
        pushed == <<ProposalEvent(current, proposal, 0),
                    LangevinEvent(Gradient(s.distribution, current), mean, sqrtEps)>>
    IN IF logU < logAlpha
       THEN [s |-> [s EXCEPT !.chain = Append(@, proposal),
                             !.acceptCount = @ + 1,
                             !.totalSteps = @ + 1],
             events |-> Append(pushed, AcceptEvent(proposal))]
       ELSE [s |-> [s EXCEPT !.chain = Append(@, current),
                             !.totalSteps = @ + 1],
             events |-> Append(pushed, RejectEvent(proposal))]

\* LangevinMC.step with randn() draws rx, ry and Math.log(Math.random()) = logU
\* (isFinite(logPiProposal) of the acceptance test holds: the log density of
\* the Gaussian is finite)
LangevinMCStep(s, rx, ry, logU) ==
  IF CannotStep(s) THEN NoStep(s)
  ELSE
    LET current == Last(s.chain)
        mean == ProposalMean(s, current)
        sqrtEps == SqrtFx(s.epsilon)
        proposal == Pt(mean.x + FxMul(rx, sqrtEps), mean.y + FxMul(ry, sqrtEps))
        grad == Gradient(s.distribution, current)
        logPiProposal == LogDensity(s.distribution, proposal)
        logPiCurrent == LogDensity(s.distribution, current)
        logQForward == LogProposalDensity(s, current, proposal)
        logQBackward == LogProposalDensity(s, proposal, current)
        logAlpha == logPiProposal - logPiCurrent + logQBackward - logQForward
        accept == logU < logAlpha
        pushed == <<LangevinEvent(grad, mean, sqrtEps),
                    ProposalEvent(current, proposal, 0)>>
    IN IF accept
       THEN [s |-> [s EXCEPT !.chain = Append(@, proposal),
                             !.acceptCount = @ + 1,
                             !.totalSteps = @ + 1],
             events |-> Append(pushed, AcceptEvent(proposal))]
       ELSE [s |-> [s EXCEPT !.chain = Append(@, current),
                             !.totalSteps = @ + 1],
             events |-> Append(pushed, RejectEvent(proposal))]

\* ---- HMC and MALA over the numbers of the language: finite values (fixed
\* point), the two infinities and NaN.  randn() is sqrt(-2 ln u1) cos(2 pi u2),
\* which is +Infinity or -Infinity when Math.random() gives u1 = 0, and
\* Math.log(Math.random()) is -Infinity then.
Fin(n) == [k |-> "fin", v |-> n]
PosInf == [k |-> "inf", v |-> 1]
NegInf == [k |-> "inf", v |-> -1]
NaN == [k |-> "nan", v |-> 0]

XRandnDraws == {Fin(Scale), PosInf, NegInf}
XLogUDraws == {Fin(0 - 2 * Scale), NegInf}

\* isFinite
XIsFinite(a) == a.k = "fin"
IsFinitePoint(p) == XIsFinite(p.x) /\ XIsFinite(p.y)
LiftPt(p) == [x |-> Fin(p.x), y |-> Fin(p.y)]

\* unary minus, +, -, * and / by a positive finite value.  An operand is
\* evaluated once and bound (x, y) before the cases look at it.
XNeg(a) ==
  CHOOSE r \in { IF x.k = "nan" THEN x ELSE [x EXCEPT !.v = 0 - @] : x \in {a} } : TRUE
XAdd(a, b) ==
  CHOOSE r \in { CASE x.k = "nan" \/ y.k = "nan" -> NaN
                   [] x.k = "fin" /\ y.k = "fin" -> Fin(x.v + y.v)
                   [] x.k = "inf" /\ y.k = "inf" -> IF x.v = y.v THEN x ELSE NaN
                   [] x.k = "inf" -> x
                   [] OTHER -> y
                 : x \in {a}, y \in {b} } : TRUE
XSub(a, b) == XAdd(a, XNeg(b))
Sign(n) == IF n > 0 THEN 1 ELSE IF n < 0 THEN -1 ELSE 0
XMul(a, b) ==
  CHOOSE r \in { CASE x.k = "nan" \/ y.k = "nan" -> NaN
                   [] x.k = "fin" /\ y.k = "fin" -> Fin(FxMul(x.v, y.v))
                   [] Sign(x.v) * Sign(y.v) = 0 -> NaN
                   [] OTHER -> [k |-> "inf", v |-> Sign(x.v) * Sign(y.v)]
                 : x \in {a}, y \in {b} } : TRUE
XSquare(a) == CHOOSE r \in { XMul(x, x) : x \in {a} } : TRUE
XDivPos(a, c) ==
  CHOOSE r \in { IF x.k = "fin" THEN Fin(FxDiv(x.v, c)) ELSE x : x \in {a} } : TRUE

\* a comparison that takes NaN for larger than every number
XLtNaNLargest(a, b) ==
  \E x \in {a}, y \in {b} :
    CASE x.k = "nan" -> FALSE
      [] y.k = "nan" -> TRUE
      [] x.k = "fin" /\ y.k = "fin" -> x.v < y.v
      [] x.k = "inf" -> x.v = -1 /\ ~(y.k = "inf" /\ y.v = -1)
      [] OTHER -> y.v = 1

\* <  (false whenever an operand is NaN)
XLt(a, b) ==
  \E x \in {a}, y \in {b} :
    CASE x.k = "nan" \/ y.k = "nan" -> FALSE
      [] x.k = "fin" /\ y.k = "fin" -> x.v < y.v
      [] x.k = "inf" -> x.v = -1 /\ ~(y.k = "inf" /\ y.v = -1)
      [] OTHER -> y.v = 1

\* ln(1e-300), the value of logDensity where the density underflows to 0
LogFloor == 0 - 69078

\* Distribution.logDensity of the Gaussian: Math.log(Math.exp(-0.5 r2) + 1e-300)
XLogDensity(d, p) ==
  CHOOSE r \in { CASE r2.k = "nan" -> NaN
                   [] r2.k = "inf" -> Fin(LogFloor)
                   [] OTHER -> IF 0 - (r2.v \div 2) < LogFloor THEN Fin(LogFloor)
                               ELSE Fin(0 - (r2.v \div 2))
                 : r2 \in {XAdd(XSquare(p.x), XSquare(p.y))} } : TRUE

\* StandardGaussian.gradient
XGradient(d, p) ==
  CHOOSE r \in { [x |-> XNeg(q.x), y |-> XNeg(q.y)] : q \in {p} } : TRUE

\* kineticEnergy and potentialEnergy
XKineticEnergy(p) ==
  CHOOSE r \in { XMul(Fin(Scale \div 2), XAdd(XSquare(q.x), XSquare(q.y)))
                 : q \in {p} } : TRUE
XPotentialEnergy(d, q) == XNeg(XLogDensity(d, q))

\* the two half steps of the momentum and the full step of the position
XHalfStep(p, g, epsilon) ==
  CHOOSE r \in { [x |-> XAdd(p1.x, XMul(XMul(Fin(Scale \div 2), Fin(epsilon)), g1.x)),
                   y |-> XAdd(p1.y, XMul(XMul(Fin(Scale \div 2), Fin(epsilon)), g1.y))]
                 : p1 \in {p}, g1 \in {g} } : TRUE
XFullStep(q, pHalf, epsilon) ==
  CHOOSE r \in { [x |-> XAdd(q1.x, XMul(Fin(epsilon), p1.x)),
                   y |-> XAdd(q1.y, XMul(Fin(epsilon), p1.y))]
                 : q1 \in {q}, p1 \in {pHalf} } : TRUE

\* leapfrogStep
XLeapfrog(d, q, p, epsilon) ==
  CHOOSE r \in
    { CHOOSE r2 \in
        { [q |-> qNew, p |-> XHalfStep(pHalf, XGradient(d, qNew), epsilon)]
          : qNew \in {XFullStep(q, pHalf, epsilon)} } : TRUE
      : pHalf \in {XHalfStep(p, XGradient(d, q), epsilon)} } : TRUE

\* the for loop of HamiltonianMC.step; its counter i is the number of points
\* pushed so far, Len(trajectory) - 1
RECURSIVE XLeapfrogLoop(_, _, _, _, _, _)
XLeapfrogLoop(d, q, p, epsilon, L, trajectory) ==
  CHOOSE r \in
    { IF Len(t) - 1 >= L THEN [q |-> q1, p |-> p1, trajectory |-> t]
      ELSE CHOOSE r2 \in { XLeapfrogLoop(d, result.q, result.p, epsilon, L,
                                         Append(t, result.q))
                           : result \in {XLeapfrog(d, q1, p1, epsilon)} } : TRUE
      : q1 \in {q}, p1 \in {p}, t \in {trajectory} } : TRUE

\* the leapfrog run of HamiltonianMC.step from the last chain entry with the
\* momentum draws rx, ry, and proposedH of its end
XRun(s, rx, ry) ==
  XLeapfrogLoop(s.distribution, Last(s.chain), [x |-> rx, y |-> ry],
                s.epsilon, s.L, <<Last(s.chain)>>)
XEnergyAtEnd(d, run) ==
  CHOOSE r \in { XAdd(XPotentialEnergy(d, e.q),
                      XKineticEnergy([x |-> XNeg(e.p.x), y |-> XNeg(e.p.y)]))
                 : e \in {run} } : TRUE
XProposedH(s, rx, ry) == XEnergyAtEnd(s.distribution, XRun(s, rx, ry))

\* the tail of the three Metropolis steps: accept pushes the proposal, reject
\* the current state
XVerdict(s, accept, proposal, pushed) ==
  CHOOSE r \in
    { IF accept
      THEN [s |-> [s EXCEPT !.chain = Append(@, q),
                            !.acceptCount = @ + 1,
                            !.totalSteps = @ + 1],
            events |-> Append(ev, AcceptEvent(q))]
      ELSE [s |-> [s EXCEPT !.chain = Append(@, Last(s.chain)),
                            !.totalSteps = @ + 1],
            events |-> Append(ev, RejectEvent(q))]
      : q \in {proposal}, ev \in {pushed} } : TRUE

\* HamiltonianMC.step
XHamiltonianMCStep(s, rx, ry, logU) ==
  IF CannotStep(s) THEN NoStep(s)
  ELSE
    CHOOSE r \in
      { CHOOSE r2 \in
          { XVerdict(s,
                     XLt(logU, XSub(currentH, proposedH)) /\ XIsFinite(proposedH),
                     run.q,
                     <<TrajectoryEvent(run.trajectory, Null),
                       ProposalEvent(Last(s.chain), run.q, 0)>>)
            : proposedH \in {XEnergyAtEnd(s.distribution, run)},
              currentH \in {XAdd(XPotentialEnergy(s.distribution, Last(s.chain)),
                                 XKineticEnergy([x |-> rx, y |-> ry]))} } : TRUE
        : run \in {XRun(s, rx, ry)} } : TRUE

\* LangevinMC.proposalMean and logProposalDensity
XProposalMean(s, q) ==
  CHOOSE r \in
    { [x |-> XAdd(q1.x, XMul(Fin(FxDiv(s.epsilon, 2 * Scale)), grad.x)),
       y |-> XAdd(q1.y, XMul(Fin(FxDiv(s.epsilon, 2 * Scale)), grad.y))]
      : q1 \in {q}, grad \in {XGradient(s.distribution, q)} } : TRUE
XLogProposalDensity(s, from, to) ==
  CHOOSE r \in
    { XDivPos(XNeg(XAdd(XSquare(XSub(t.x, mean.x)), XSquare(XSub(t.y, mean.y)))),
              2 * s.epsilon)
      : t \in {to}, mean \in {XProposalMean(s, from)} } : TRUE

\* the proposal of LangevinMC.step with the randn() draws rx, ry, and its
\* log density
XProposal(s, rx, ry) ==
  CHOOSE r \in
    { [x |-> XAdd(mean.x, XMul(rx, sqrtEps)), y |-> XAdd(mean.y, XMul(ry, sqrtEps))]
      : mean \in {XProposalMean(s, Last(s.chain))},
        sqrtEps \in {Fin(SqrtFx(s.epsilon))} } : TRUE
XLogPiProposal(s, rx, ry) == XLogDensity(s.distribution, XProposal(s, rx, ry))

\* LangevinMC.step
XLangevinMCStep(s, rx, ry, logU) ==
  IF CannotStep(s) THEN NoStep(s)
  ELSE
    CHOOSE r \in
      { XVerdict(s,
                 XLt(logU, XSub(XAdd(XSub(logPiProposal,
                                          XLogDensity(s.distribution, current)),
                                     XLogProposalDensity(s, proposal, current)),
                                XLogProposalDensity(s, current, proposal)))
                   /\ XIsFinite(logPiProposal),
                 proposal,
                 <<LangevinEvent(XGradient(s.distribution, current),
                                 XProposalMean(s, current), Fin(SqrtFx(s.epsilon))),
                   ProposalEvent(current, proposal, 0)>>)
        : current \in {Last(s.chain)},
          proposal \in {XProposal(s, rx, ry)},
          logPiProposal \in {XLogPiProposal(s, rx, ry)} } : TRUE

XKinds == {"hmc", "mala"}

XStepOutcome(s, rx, ry, logU) ==
  IF s.kind = "hmc" THEN XHamiltonianMCStep(s, rx, ry, logU)
  ELSE XLangevinMCStep(s, rx, ry, logU)

\* ---- The leapfrog step in exact arithmetic: a number is a rational n / d in
\* lowest terms (d > 0), an infinity (n its sign) or NaN.  Every sum and product
\* of the code is computed exactly, so that a deviation found is one of the
\* integrator and not of rounding.
RECURSIVE Gcd(_, _)
Gcd(a, b) == IF b = 0 THEN a ELSE Gcd(b, a % b)
Abs(n) == IF n < 0 THEN 0 - n ELSE n

RNaN == [k |-> "nan", n |-> 0, d |-> 1]
Rat(n, d) ==
  CHOOSE r \in { [k |-> "fin", n |-> n \div g, d |-> d \div g]
                 : g \in {Gcd(Abs(n), d)} } : TRUE

RNeg(a) ==
  CHOOSE r \in { IF x.k = "nan" THEN x ELSE [x EXCEPT !.n = 0 - @] : x \in {a} } : TRUE
RAdd(a, b) ==
  CHOOSE r \in { CASE x.k = "nan" \/ y.k = "nan" -> RNaN
                   [] x.k = "fin" /\ y.k = "fin" ->
                        Rat(x.n * (y.d \div Gcd(x.d, y.d)) + y.n * (x.d \div Gcd(x.d, y.d)),
                            (x.d \div Gcd(x.d, y.d)) * y.d)
                   [] x.k = "inf" /\ y.k = "inf" -> IF x.n = y.n THEN x ELSE RNaN
                   [] x.k = "inf" -> x
                   [] OTHER -> y
                 : x \in {a}, y \in {b} } : TRUE
RMul(a, b) ==
  CHOOSE r \in { CASE x.k = "nan" \/ y.k = "nan" -> RNaN
                   [] x.k = "fin" /\ y.k = "fin" ->
                        Rat((x.n \div Gcd(Abs(x.n), y.d)) * (y.n \div Gcd(Abs(y.n), x.d)),
                            (x.d \div Gcd(Abs(y.n), x.d)) * (y.d \div Gcd(Abs(x.n), y.d)))
                   [] Sign(x.n) * Sign(y.n) = 0 -> RNaN
                   [] OTHER -> [k |-> "inf", n |-> Sign(x.n) * Sign(y.n), d |-> 1]
                 : x \in {a}, y \in {b} } : TRUE

\* Math.abs(a - b) <= 1e-6 (false when the difference is NaN or infinite)
RWithinTolerance(a, b) ==
  \E diff \in {RAdd(a, RNeg(b))} :
    diff.k = "fin" /\ Abs(diff.n) <= diff.d \div 1000000

\* StandardGaussian.gradient
RGradient(q) == CHOOSE r \in { [x |-> RNeg(q1.x), y |-> RNeg(q1.y)] : q1 \in {q} } : TRUE

\* p + 0.5 * epsilon * grad, componentwise
RMomentumHalfStep(p, grad, epsilon) ==
  CHOOSE r \in { [x |-> RAdd(p1.x, RMul(half, g1.x)), y |-> RAdd(p1.y, RMul(half, g1.y))]
                 : p1 \in {p}, g1 \in {grad}, half \in {RMul(Rat(1, 2), epsilon)} } : TRUE

\* a step that moves the momentum by the whole step first and then the position
RLeapfrogStepEuler(q, p, epsilon) ==
  CHOOSE r \in
    { [q |-> [x |-> RAdd(q.x, RMul(epsilon, pNew.x)),
              y |-> RAdd(q.y, RMul(epsilon, pNew.y))], p |-> pNew]
      : pNew \in {RMomentumHalfStep(RMomentumHalfStep(p, RGradient(q), epsilon),
                                    RGradient(q), epsilon)} } : TRUE

\* HamiltonianMC.leapfrogStep
RLeapfrogStep(q, p, epsilon) ==
  CHOOSE r \in
    { CHOOSE r2 \in
        { [q |-> qNew, p |-> RMomentumHalfStep(pHalf, RGradient(qNew), epsilon)]
          : qNew \in {[x |-> RAdd(q.x, RMul(epsilon, pHalf.x)),
                        y |-> RAdd(q.y, RMul(epsilon, pHalf.y))]} } : TRUE
      : pHalf \in {RMomentumHalfStep(p, RGradient(q), epsilon)} } : TRUE

\* the first for loop of sampleConditionalX/Y: total of the densities of bins i..n-1
\* (axis "x": y is fixed; axis "y": x is fixed)
BinCenter(lo, i, width) == lo + ((2 * i + 1) * width) \div 2
BinDensity(d, axis, fixed, lo, i, width) ==
  IF axis = "x" THEN Density(d, Pt(BinCenter(lo, i, width), fixed))
  ELSE Density(d, Pt(fixed, BinCenter(lo, i, width)))

\* the loops below run over the bins in blocks of sixteen, so that the depth of
\* the recursion stays small; the order of the additions is the loop's
RECURSIVE BlockTotal(_, _, _, _, _, _, _)
BlockTotal(d, axis, fixed, lo, i, hi, width) ==
  IF i >= hi THEN 0
  ELSE BinDensity(d, axis, fixed, lo, i, width)
       + BlockTotal(d, axis, fixed, lo, i + 1, hi, width)

RECURSIVE DensityTotal(_, _, _, _, _, _, _)
DensityTotal(d, axis, fixed, lo, i, n, width) ==
  IF i >= n THEN 0
  ELSE BlockTotal(d, axis, fixed, lo, i, IF i + 16 < n THEN i + 16 ELSE n, width)
       + DensityTotal(d, axis, fixed, lo, i + 16, n, width)

\* the inverse-CDF for loop over bins i..hi-1: where it returns, or that it
\* ran through with the cumulative sum reached
RECURSIVE ScanBlock(_, _, _, _, _, _, _, _, _)
ScanBlock(d, axis, fixed, lo, i, hi, width, cumsum, u) ==
  IF i >= hi THEN [found |-> FALSE, i |-> hi, cumsum |-> cumsum]
  ELSE LET c == cumsum + BinDensity(d, axis, fixed, lo, i, width)
       IN IF c >= u THEN [found |-> TRUE, i |-> i, cumsum |-> c]
          ELSE ScanBlock(d, axis, fixed, lo, i + 1, hi, width, c, u)

\* the inverse-CDF for loop: the first bin i whose cumulative sum reaches u,
\* or n when the loop ends without returning
RECURSIVE FirstBin(_, _, _, _, _, _, _, _, _)
FirstBin(d, axis, fixed, lo, i, n, width, cumsum, u) ==
  IF i >= n THEN n
  ELSE LET scan == ScanBlock(d, axis, fixed, lo, i,
                             IF i + 16 < n THEN i + 16 ELSE n, width, cumsum, u)
       IN IF scan.found THEN scan.i
          ELSE FirstBin(d, axis, fixed, lo, scan.i, n, width, scan.cumsum, u)

\* a conditional draw that returns the midpoint of the last bin when every
\* density of the row is 0
SampleConditionalMidpointOnZero(s, axis, fixed, lo, hi, r1, r2) ==
  LET n == s.gridResolution
      width == (hi - lo) \div n
      total == DensityTotal(s.distribution, axis, fixed, lo, 0, n, width)
      i == FirstBin(s.distribution, axis, fixed, lo, 0, n, width, 0, FxMul(r1, total))
  IN IF total > 0 /\ i < n THEN lo + ((i * Scale + r2) * width) \div Scale
     ELSE hi - width \div 2

\* sampleConditionalX / sampleConditionalY with Math.random() draws r1 (for u)
\* and r2 (jitter inside the bin)
SampleConditional(s, axis, fixed, lo, hi, r1, r2) ==
  LET n == s.gridResolution
      width == (hi - lo) \div n
      total == DensityTotal(s.distribution, axis, fixed, lo, 0, n, width)
      u == FxMul(r1, total)
      i == FirstBin(s.distribution, axis, fixed, lo, 0, n, width, 0, u)
  IN IF i < n THEN lo + ((i * Scale + r2) * width) \div Scale
     ELSE hi - width \div 2

\* a GibbsSampler.step that reports the sweep as one move
GibbsSamplerStepOneMove(s, r1, r2, r3, r4) ==
  IF s.distribution = "null" \/ Len(s.chain) = 0 THEN [s |-> s, events |-> <<>>]
  ELSE
    LET current == s.chain[Len(s.chain)]
        bounds == Bounds(s.distribution)
        newX == SampleConditional(s, "x", current.y, bounds.xMin, bounds.xMax, r1, r2)
        newY == SampleConditional(s, "y", newX, bounds.yMin, bounds.yMax, r3, r4)
    IN [s |-> [s EXCEPT !.chain = Append(@, Pt(newX, newY))],
        events |-> <<ProposalEvent(current, Pt(newX, newY), 0),
                     AcceptEvent(Pt(newX, newY))>>]

\* GibbsSampler.step with the four Math.random() draws of its two conditionals
GibbsSamplerStep(s, r1, r2, r3, r4) ==
  IF CannotStep(s) THEN NoStep(s)
  ELSE
    LET current == Last(s.chain)
        bounds == Bounds(s.distribution)
        newX == SampleConditional(s, "x", current.y, bounds.xMin, bounds.xMax, r1, r2)
        intermediate == Pt(newX, current.y)
        newY == SampleConditional(s, "y", newX, bounds.yMin, bounds.yMax, r3, r4)
        next == Pt(newX, newY)
    IN [s |-> [s EXCEPT !.chain = Append(@, next)],
        events |-> <<ProposalEvent(current, intermediate, 0),
                     AcceptEvent(intermediate),
                     ProposalEvent(intermediate, next, 0),
                     AcceptEvent(next)>>]

\* a U-turn test that stops the trajectory on a zero dot product as well
CheckUTurnStrict(qMinus, qPlus, pMinus, pPlus) ==
  /\ (qPlus.x - qMinus.x) * pMinus.x + (qPlus.y - qMinus.y) * pMinus.y > 0
  /\ (qPlus.x - qMinus.x) * pPlus.x + (qPlus.y - qMinus.y) * pPlus.y > 0

\* NUTS.checkUTurn: TRUE when the trajectory may go on
CheckUTurn(qMinus, qPlus, pMinus, pPlus) ==
  LET dq == Pt(qPlus.x - qMinus.x, qPlus.y - qMinus.y)
  IN  /\ dq.x * pMinus.x + dq.y * pMinus.y >= 0
      /\ dq.x * pPlus.x + dq.y * pPlus.y >= 0

\* the base case of buildTree; logSlice is ln(u), so that
\* u <= exp(H0 - HPrime) reads logSlice <= H0 - HPrime
BuildLeaf(s, q, p, logSlice, v, H0) ==
  LET result == Leapfrog(s.distribution, q, p, v * s.epsilon)
      HPrime == Hamiltonian(s.distribution, result.q, result.p)
  IN [qMinus |-> result.q, pMinus |-> result.p,
      qPlus |-> result.q, pPlus |-> result.p,
      qPrime |-> result.q,
      nPrime |-> IF logSlice <= H0 - HPrime THEN 1 ELSE 0,
      sPrime |-> HPrime - H0 < s.deltaMax,
      alphaPrime |-> ExpLe1(H0 - HPrime),
      nAlphaPrime |-> 1]

\* a combination that leaves the U-turn test of the combined boundary out
CombineTreesNoUTurn(tree, tree2, v, r) ==
  [qMinus |-> IF v = -1 THEN tree2.qMinus ELSE tree.qMinus,
   pMinus |-> IF v = -1 THEN tree2.pMinus ELSE tree.pMinus,
   qPlus |-> IF v = 1 THEN tree2.qPlus ELSE tree.qPlus,
   pPlus |-> IF v = 1 THEN tree2.pPlus ELSE tree.pPlus,
   qPrime |-> IF tree.nPrime + tree2.nPrime > 0
                 /\ r * (tree.nPrime + tree2.nPrime) < tree2.nPrime * Scale
              THEN tree2.qPrime ELSE tree.qPrime,
   nPrime |-> tree.nPrime + tree2.nPrime,
   sPrime |-> tree2.sPrime,
   alphaPrime |-> tree.alphaPrime + tree2.alphaPrime,
   nAlphaPrime |-> tree.nAlphaPrime + tree2.nAlphaPrime]

\* the combination of the two half-trees in buildTree; r is the Math.random()
\* draw of the proposal selection
CombineTrees(tree, tree2, v, r) ==
  LET nTotal == tree.nPrime + tree2.nPrime
      qPrime == IF nTotal > 0 /\ r * nTotal < tree2.nPrime * Scale
                THEN tree2.qPrime ELSE tree.qPrime
      qMinus == IF v = -1 THEN tree2.qMinus ELSE tree.qMinus
      pMinus == IF v = -1 THEN tree2.pMinus ELSE tree.pMinus
      qPlus == IF v = 1 THEN tree2.qPlus ELSE tree.qPlus
      pPlus == IF v = 1 THEN tree2.pPlus ELSE tree.pPlus
  IN [qMinus |-> qMinus, pMinus |-> pMinus, qPlus |-> qPlus, pPlus |-> pPlus,
      qPrime |-> qPrime,
      nPrime |-> nTotal,
      sPrime |-> tree2.sPrime /\ CheckUTurn(qMinus, qPlus, pMinus, pPlus),
      alphaPrime |-> tree.alphaPrime + tree2.alphaPrime,
      nAlphaPrime |-> tree.nAlphaPrime + tree2.nAlphaPrime]

\* NUTS.buildTree: the set of trees it can return, over the Math.random()
\* draws of the proposal selections
RECURSIVE BuildTree(_, _, _, _, _, _, _)
BuildTree(s, q, p, logSlice, v, j, H0) ==
  IF j = 0 THEN {BuildLeaf(s, q, p, logSlice, v, H0)}
  ELSE UNION { IF ~tree.sPrime THEN {tree}
               ELSE UNION { {CombineTrees(tree, tree2, v, r) : r \in SelectDraws} :
                            tree2 \in IF v = -1
                                      THEN BuildTree(s, tree.qMinus, tree.pMinus,
                                                     logSlice, v, j - 1, H0)
                                      ELSE BuildTree(s, tree.qPlus, tree.pPlus,
                                                     logSlice, v, j - 1, H0) } :
               tree \in BuildTree(s, q, p, logSlice, v, j - 1, H0) }

\* an iteration that takes the subtree's proposal with probability
\* nPrime / (n + nPrime)
DoublingStepUniform(st, v, tree, r) ==
  [qMinus |-> IF v = -1 THEN tree.qMinus ELSE st.qMinus,
   pMinus |-> IF v = -1 THEN tree.pMinus ELSE st.pMinus,
   qPlus |-> IF v = -1 THEN st.qPlus ELSE tree.qPlus,
   pPlus |-> IF v = -1 THEN st.pPlus ELSE tree.pPlus,
   q |-> IF r * (st.n + tree.nPrime) < tree.nPrime * Scale THEN tree.qPrime ELSE st.q,
   n |-> st.n + tree.nPrime,
   s |-> tree.sPrime /\ CheckUTurn(IF v = -1 THEN tree.qMinus ELSE st.qMinus,
                                   IF v = -1 THEN st.qPlus ELSE tree.qPlus,
                                   IF v = -1 THEN tree.pMinus ELSE st.pMinus,
                                   IF v = -1 THEN st.pPlus ELSE tree.pPlus),
   j |-> st.j + 1]

\* one iteration of the while loop of NUTS.step from loop state st, with
\* direction v, subtree tree and selection draw r
DoublingStep(st, v, tree, r) ==
  LET qMinus == IF v = -1 THEN tree.qMinus ELSE st.qMinus
      pMinus == IF v = -1 THEN tree.pMinus ELSE st.pMinus
      qPlus == IF v = -1 THEN st.qPlus ELSE tree.qPlus
      pPlus == IF v = -1 THEN st.pPlus ELSE tree.pPlus
  IN [qMinus |-> qMinus, pMinus |-> pMinus, qPlus |-> qPlus, pPlus |-> pPlus,
      q |-> IF tree.sPrime /\ r * st.n < tree.nPrime * Scale
            THEN tree.qPrime ELSE st.q,
      n |-> st.n + tree.nPrime,
      s |-> tree.sPrime /\ CheckUTurn(qMinus, qPlus, pMinus, pPlus),
      j |-> st.j + 1]

\* Math.random() < 0.5 ? -1 : 1
Direction(r) == IF 2 * r < Scale THEN -1 ELSE 1

\* the while loop of NUTS.step: the set of loop states it can end in
RECURSIVE TreeLoop(_, _, _, _)
TreeLoop(s, st, logSlice, H0) ==
  IF ~(st.s /\ st.j < s.maxTreeDepth) THEN {st}
  ELSE UNION { UNION { UNION { TreeLoop(s, DoublingStep(st, Direction(rv), tree, r),
                                        logSlice, H0) :
                               r \in UnifDraws } :
                       tree \in IF Direction(rv) = -1
                                THEN BuildTree(s, st.qMinus, st.pMinus, logSlice,
                                               -1, st.j, H0)
                                ELSE BuildTree(s, st.qPlus, st.pPlus, logSlice,
                                               1, st.j, H0) } :
               rv \in UnifDraws }

\* a tail of NUTS.step that overwrites the last chain entry with an accepted q
NUTSTailOverwrite(s, q0, q) ==
  LET accepted == q.x # q0.x \/ q.y # q0.y
  IN IF accepted
     THEN [s |-> [s EXCEPT !.chain = Append(SubSeq(@, 1, Len(@) - 1), q),
                           !.acceptCount = @ + 1,
                           !.totalSteps = @ + 1],
           events |-> <<ProposalEvent(q0, q, 0), AcceptEvent(q)>>]
     ELSE [s |-> [s EXCEPT !.chain = Append(@, q0),
                           !.totalSteps = @ + 1],
           events |-> <<ProposalEvent(q0, q, 0), RejectEvent(q)>>]

\* a tail of NUTS.step that reports every selection as accepted
NUTSTailAlwaysAccept(s, q0, q) ==
  [s |-> [s EXCEPT !.chain = Append(@, q),
                   !.acceptCount = @ + 1,
                   !.totalSteps = @ + 1],
   events |-> <<ProposalEvent(q0, q, 0), AcceptEvent(q)>>]

\* the tail of NUTS.step once the loop has selected q
NUTSTail(s, q0, q) ==
  LET accepted == q.x # q0.x \/ q.y # q0.y
  IN IF accepted
     THEN [s |-> [s EXCEPT !.chain = Append(@, q),
                           !.acceptCount = @ + 1,
                           !.totalSteps = @ + 1],
           events |-> <<ProposalEvent(q0, q, 0), AcceptEvent(q)>>]
     ELSE [s |-> [s EXCEPT !.chain = Append(@, q0),
                           !.totalSteps = @ + 1],
           events |-> <<ProposalEvent(q0, q, 0), RejectEvent(q)>>]

\* NUTS.step with momentum draws rx, ry and ln(Math.random()) = logR for the
\* slice variable: the set of its outcomes over the draws made inside the loop
NUTSStep(s, rx, ry, logR) ==
  IF CannotStep(s) THEN {NoStep(s)}
  ELSE
    LET q0 == Last(s.chain)
        p0 == Pt(rx, ry)
        H0 == Hamiltonian(s.distribution, q0, p0)
        logSlice == logR - H0
        st0 == [qMinus |-> q0, pMinus |-> p0, qPlus |-> q0, pPlus |-> p0,
                q |-> q0, n |-> 1, s |-> TRUE, j |-> 0]
    IN { NUTSTail(s, q0, st.q) : st \in TreeLoop(s, st0, logSlice, H0) }

\* getAcceptanceRate of RandomWalkMH, HamiltonianMC, NUTS and LangevinMC
GetAcceptanceRate(s) ==
  IF s.totalSteps = 0 THEN 0 ELSE (s.acceptCount * Scale) \div s.totalSteps

\* every outcome of algorithm.step(visualizer) over the random draws
StepOutcomes(s) ==
  CASE s.kind = "rwmh" ->
         { RandomWalkMHStep(s, rx, ry, logU) :
           rx \in RandnDraws, ry \in RandnDraws, logU \in LogUDraws }
    [] s.kind = "hmc" ->
         { HamiltonianMCStep(s, rx, ry, logU) :
           rx \in RandnDraws, ry \in RandnDraws, logU \in LogUDraws }
    [] s.kind = "mala" ->
         { LangevinMCStep(s, rx, ry, logU) :
           rx \in RandnDraws, ry \in RandnDraws, logU \in LogUDraws }
    [] s.kind = "gibbs" ->
         { GibbsSamplerStep(s, r1, r2, r3, r4) :
           r1 \in UnifDraws, r2 \in JitterDraws, r3 \in UnifDraws, r4 \in JitterDraws }
    [] s.kind = "nuts" ->
         UNION { NUTSStep(s, rx, ry, logR) :
                 rx \in RandnDraws, ry \in RandnDraws, logR \in LogUDraws }

---------------------------------------------------------------------------
(* Visualizer *)

DefaultMaxTrailLength == 500

NewVisualizer ==
  [queue |-> <<>>,
   currentPosition |-> Null, proposalPosition |-> Null, proposalRadius |-> 0,
   acceptedSamples |-> <<>>, allSamples |-> <<>>,
   trajectoryPath |-> Null, momentum |-> Null,
   fullTrajectoryPath |-> Null, trajectoryAnimationIndex |-> 0,
   animateTrajectory |-> TRUE,
   langevinGradient |-> Null, langevinDriftPoint |-> Null, langevinNoiseRadius |-> 0,
   maxTrailLength |-> DefaultMaxTrailLength,
   flashAccept |-> FALSE, flashReject |-> FALSE, proposalAccepted |-> "null",
   pendingPosition |-> Null, pendingSample |-> Null]

\* Array.shift
Shift(seq) == IF Len(seq) = 0 THEN seq ELSE Tail(seq)

\* the while loop of the maxTrailLength setter
RECURSIVE TrimTo(_, _)
TrimTo(seq, value) == IF Len(seq) > value THEN TrimTo(Shift(seq), value) ELSE seq

\* a maxTrailLength setter that empties the sample log as well
SetMaxTrailLengthDroppingLog(v, value) ==
  [v EXCEPT !.maxTrailLength = value, !.acceptedSamples = <<>>, !.allSamples = <<>>]

SetMaxTrailLengthOn(v, value) ==
  [v EXCEPT !.maxTrailLength = value, !.acceptedSamples = TrimTo(@, value)]

\* a fold that moves the current position as soon as it folds an accept event
ProcessEventApplyAtOnce(v, event) ==
  CASE event.type = "proposal" ->
         [v EXCEPT !.proposalPosition = Some(event.to),
                   !.proposalRadius = event.radius,
                   !.proposalAccepted = "null"]
    [] event.type = "accept" ->
         [v EXCEPT !.currentPosition = Some(event.position),
                   !.pendingSample = Some(event.position),
                   !.allSamples = Append(@, event.position),
                   !.proposalAccepted = "true",
                   !.flashAccept = TRUE]
    [] event.type = "reject" ->
         [v EXCEPT !.proposalAccepted = "false",
                   !.flashReject = TRUE]
    [] event.type = "trajectory" ->
         IF v.animateTrajectory /\ Len(event.path) > 1
         THEN [v EXCEPT !.momentum = event.momentum,
                        !.fullTrajectoryPath = Some(event.path),
                        !.trajectoryAnimationIndex = 1,
                        !.trajectoryPath = Some(SubSeq(event.path, 1, 2))]
         ELSE [v EXCEPT !.momentum = event.momentum,
                        !.fullTrajectoryPath = Null,
                        !.trajectoryAnimationIndex = 0,
                        !.trajectoryPath = Some(event.path)]
    [] event.type = "langevin" ->
         [v EXCEPT !.langevinGradient = Some(event.gradient),
                   !.langevinDriftPoint = Some(event.driftPoint),
                   !.langevinNoiseRadius = event.noiseRadius]
    [] OTHER -> v

ProcessEvent(v, event) ==
  CASE event.type = "proposal" ->
         [v EXCEPT !.proposalPosition = Some(event.to),
                   !.proposalRadius = event.radius,
                   !.proposalAccepted = "null"]
    [] event.type = "accept" ->
         [v EXCEPT !.pendingPosition = Some(event.position),
                   !.pendingSample = Some(event.position),
                   !.allSamples = Append(@, event.position),
                   !.proposalAccepted = "true",
                   !.flashAccept = TRUE]
    [] event.type = "reject" ->
         [v EXCEPT !.proposalAccepted = "false",
                   !.flashReject = TRUE]
    [] event.type = "trajectory" ->
         IF v.animateTrajectory /\ Len(event.path) > 1
         THEN [v EXCEPT !.momentum = event.momentum,
                        !.fullTrajectoryPath = Some(event.path),
                        !.trajectoryAnimationIndex = 1,
                        !.trajectoryPath = Some(SubSeq(event.path, 1, 2))]
         ELSE [v EXCEPT !.momentum = event.momentum,
                        !.fullTrajectoryPath = Null,
                        !.trajectoryAnimationIndex = 0,
                        !.trajectoryPath = Some(event.path)]
    [] event.type = "langevin" ->
         [v EXCEPT !.langevinGradient = Some(event.gradient),
                   !.langevinDriftPoint = Some(event.driftPoint),
                   !.langevinNoiseRadius = event.noiseRadius]
    [] OTHER -> v

\* a drain that pops the newest event first
RECURSIVE DrainQueueLifo(_)
DrainQueueLifo(v) ==
  IF Len(v.queue) > 0
  THEN DrainQueueLifo(ProcessEvent([v EXCEPT !.queue = SubSeq(@, 1, Len(@) - 1)],
                                   v.queue[Len(v.queue)]))
  ELSE v

\* the while loop of dequeueAll: shift the head, process it, repeat
RECURSIVE DrainQueue(_)
DrainQueue(v) ==
  IF Len(v.queue) > 0
  THEN DrainQueue(ProcessEvent([v EXCEPT !.queue = Tail(@)], Head(v.queue)))
  ELSE v

ApplyPending(v) ==
  LET v1 == IF ~IsNull(v.pendingPosition)
            THEN [v EXCEPT !.currentPosition = v.pendingPosition,
                           !.pendingPosition = Null]
            ELSE v
      pushed == Append(v1.acceptedSamples, Val(v1.pendingSample))
  IN IF ~IsNull(v1.pendingSample)
     THEN [v1 EXCEPT !.acceptedSamples = IF Len(pushed) > v1.maxTrailLength
                                         THEN Shift(pushed) ELSE pushed,
                     !.pendingSample = Null]
     ELSE v1

DequeueAll(v) == DrainQueue(ApplyPending(v))

VisualizerReset(v) ==
  [v EXCEPT !.queue = <<>>,
            !.currentPosition = Null, !.proposalPosition = Null,
            !.pendingPosition = Null, !.pendingSample = Null,
            !.proposalAccepted = "null",
            !.acceptedSamples = <<>>, !.allSamples = <<>>,
            !.trajectoryPath = Null, !.fullTrajectoryPath = Null,
            !.trajectoryAnimationIndex = 0, !.momentum = Null,
            !.langevinGradient = Null, !.langevinDriftPoint = Null,
            !.langevinNoiseRadius = 0]

---------------------------------------------------------------------------
(* Simulation *)

\* Simulation.initialize once algorithm and distribution are both bound:
\* init(), reset() of the sampler
InitializeSampler(s) == SamplerReset(SamplerInit(s), Null)

\* a seeding that leaves the sample log alone
SeedVisualizerWithoutLog(v, start) ==
  [v EXCEPT !.currentPosition = Some(start),
            !.acceptedSamples = <<start>>]

\* the writes after visualizer.reset() in initialize and setStartPosition
SeedVisualizer(v, start) ==
  [v EXCEPT !.currentPosition = Some(start),
            !.acceptedSamples = <<start>>,
            !.allSamples = <<start>>]

\* an initialize that seeds the visualizer without resetting it first
InitializeVisualizerNoReset(v, chain) ==
  IF Len(chain) > 0
  THEN [v EXCEPT !.currentPosition = Some(chain[1]),
                 !.acceptedSamples = <<chain[1]>>,
                 !.allSamples = <<chain[1]>>]
  ELSE v

\* visualizer.reset() and the seeding from the chain in initialize
InitializeVisualizer(v, chain) ==
  IF Len(chain) > 0 THEN SeedVisualizer(VisualizerReset(v), chain[1])
  ELSE VisualizerReset(v)

\* History of the run, for stating the properties; no action reads it:
\*   reset    whether reset() of the bound sampler object was ever called
\*   arg      the argument of its last reset() call (Null for none)
\*   steps    step() calls on it since then that found a distribution bound
\*   accepts  accept events handed to the fold since the last visualizer.reset()
\*   seeded   whether the visualizer was seeded with a start point since then
\*   events   the events the last algorithm.step() pushed onto the queue
\*            (empty after a reset and for a newly bound sampler)
NoHist == [reset |-> FALSE, arg |-> Null,
           steps |-> 0, accepts |-> 0, seeded |-> FALSE, events |-> <<>>]
ResetHist(arg) == [reset |-> TRUE, arg |-> arg,
                   steps |-> 0, accepts |-> 0, seeded |-> TRUE, events |-> <<>>]

\* the values the parameters are set to from outside
ParamNames(kind) ==
  CASE kind = "rwmh" -> {"sigma"}
    [] kind = "hmc" -> {"epsilon", "L"}
    [] kind = "nuts" -> {"epsilon", "maxTreeDepth", "deltaMax"}
    [] kind = "mala" -> {"epsilon"}
    [] kind = "gibbs" -> {"gridResolution"}
    [] OTHER -> {}

ParamValues(kind, name) ==
  CASE name = "sigma" -> {DefaultSigma, Scale}
    [] name = "epsilon" /\ kind = "mala" -> {DefaultEpsilonMALA, Scale}
    [] name = "epsilon" /\ kind = "hmc" -> {DefaultEpsilonHMC, Scale \div 2}
    [] name = "epsilon" -> {DefaultEpsilonNUTS}
    [] name = "L" -> {DefaultL, 5}
    [] name = "maxTreeDepth" -> {DefaultMaxTreeDepth, MaxTreeDepthModelled}
    [] name = "deltaMax" -> {DefaultDeltaMax, 0}
    [] name = "gridResolution" -> {DefaultGridResolution, 50}

\* The callbacks of Simulation.animate pending in the browser:
\*   timeouts   the number of setTimeout(..., delay) callbacks not yet run
\*              (all have the same delay and the same body)
\*   frames     the ids of the requestAnimationFrame requests not yet run and
\*              not cancelled, oldest first
NoTimers == [timeouts |-> 0, frames |-> <<>>]

MaxPending == 2

\* cancelAnimationFrame(id) guarded by  animationId !== null
CancelAnimationFrame(t, id) ==
  IF IsNull(id) THEN t
  ELSE [t EXCEPT !.frames = SelectSeq(@, LAMBDA f : f # Val(id))]

\* the id requestAnimationFrame returns: one that no pending request has (the
\* caller stores it in animationId at once, so an id that has run or was
\* cancelled can stand for a new one)
NewFrameId(t) ==
  CHOOSE n \in 1..(Len(t.frames) + 1) :
    /\ \A i \in 1..Len(t.frames) : t.frames[i] # n
    /\ \A m \in 1..(n - 1) : \E i \in 1..Len(t.frames) : t.frames[i] = m

StartPositions == {Pt(0 - Scale, 0 - Scale)}
TrailInputs == {0, 1}

Init ==
  /\ algorithm = NoAlgorithm
  /\ distribution = "null"
  /\ visualizer = NewVisualizer
  /\ isRunning = FALSE
  /\ totalSamples = 0
  /\ animationId = Null
  /\ hist = NoHist
  /\ timers = NoTimers
  /\ created = <<>>
  /\ probe = [op |-> "none"]

\* Simulation.setAlgorithm with a newly constructed sampler of the kind
SetAlgorithm(kind) ==
  /\ IF distribution # "null"
     THEN LET s == InitializeSampler(SamplerSetDistribution(NewSampler(kind), distribution))
          IN /\ algorithm' = s
             /\ visualizer' = InitializeVisualizer(visualizer, s.chain)
             /\ totalSamples' = 0
             /\ hist' = ResetHist(Null)
     ELSE /\ algorithm' = NewSampler(kind)
          /\ hist' = [hist EXCEPT !.reset = FALSE, !.arg = Null,
                                  !.steps = 0, !.events = <<>>]
          /\ UNCHANGED <<visualizer, totalSamples>>
  /\ UNCHANGED <<distribution, isRunning, animationId>>
  /\ UNCHANGED <<timers, created, probe>>

\* Simulation.setDistribution
SetDistribution(d) ==
  /\ distribution' = d
  /\ IF HasAlgorithm
     THEN LET s == InitializeSampler(SamplerSetDistribution(algorithm, d))
          IN /\ algorithm' = s
             /\ visualizer' = InitializeVisualizer(visualizer, s.chain)
             /\ totalSamples' = 0
             /\ hist' = ResetHist(Null)
     ELSE /\ UNCHANGED hist
          /\ UNCHANGED <<algorithm, visualizer, totalSamples>>
  /\ UNCHANGED <<isRunning, animationId>>
  /\ UNCHANGED <<timers, created, probe>>

\* Simulation.reset: pause(), then initialize()
Reset ==
  /\ isRunning' = FALSE
  /\ animationId' = Null
  /\ timers' = CancelAnimationFrame(timers, animationId)
  /\ UNCHANGED <<created, probe>>
  /\ IF HasAlgorithm /\ distribution # "null"
     THEN LET s == InitializeSampler(algorithm)
          IN /\ algorithm' = s
             /\ visualizer' = InitializeVisualizer(visualizer, s.chain)
             /\ totalSamples' = 0
             /\ hist' = ResetHist(Null)
     ELSE /\ UNCHANGED hist
          /\ UNCHANGED <<algorithm, visualizer, totalSamples>>
  /\ UNCHANGED distribution

\* Simulation.setStartPosition
SetStartPosition(position) ==
  /\ IF HasAlgorithm
     THEN /\ algorithm' = SamplerReset(algorithm, Some(position))
          /\ visualizer' = SeedVisualizer(VisualizerReset(visualizer), position)
          /\ totalSamples' = 0
          /\ hist' = ResetHist(Some(position))
     ELSE /\ UNCHANGED hist
          /\ UNCHANGED <<algorithm, visualizer, totalSamples>>
  /\ UNCHANGED <<distribution, isRunning, animationId>>
  /\ UNCHANGED <<timers, created, probe>>

CountAccepts(events) == Cardinality({i \in 1..Len(events) : events[i].type = "accept"})

\* Simulation.step: algorithm.step(visualizer), dequeueAll(), totalSamples++
SimulationStep ==
  /\ totalSamples < MaxSteps
  /\ IF HasAlgorithm
     THEN /\ algorithm.kind = "nuts" /\ ~CannotStep(algorithm)
               => algorithm.maxTreeDepth <= MaxTreeDepthModelled
          /\ \E outcome \in StepOutcomes(algorithm) :
               /\ algorithm' = outcome.s
               /\ visualizer' = DequeueAll([visualizer EXCEPT
                                              !.queue = @ \o outcome.events])
               /\ hist' = [hist EXCEPT
                             !.steps = IF algorithm.distribution # "null" /\ hist.reset
                                       THEN @ + 1 ELSE @,
                             !.accepts = @ + CountAccepts(outcome.events),
                             !.events = outcome.events]
          /\ totalSamples' = totalSamples + 1
     ELSE /\ UNCHANGED hist
          /\ UNCHANGED <<algorithm, visualizer, totalSamples>>

\* a call of step() from outside (the step button, the N key)
Step ==
  /\ SimulationStep
  /\ UNCHANGED <<distribution, isRunning, animationId>>
  /\ UNCHANGED <<timers, created, probe>>

\* a parameter field of the sampler written from outside; the control panel's
\* change handler of sigma also writes visualizer.proposalRadius
SetParam(name, value) ==
  /\ HasAlgorithm
  /\ name \in ParamNames(algorithm.kind)
  /\ algorithm[name] # value
  /\ algorithm' = [algorithm EXCEPT ![name] = value]
  /\ visualizer' = IF name = "sigma"
                   THEN [visualizer EXCEPT !.proposalRadius = value]
                   ELSE visualizer
  /\ UNCHANGED hist
  /\ UNCHANGED <<distribution, isRunning, totalSamples, animationId>>
  /\ UNCHANGED <<timers, created, probe>>

\* the maxTrailLength setter
SetMaxTrailLength(value) ==
  /\ visualizer.maxTrailLength # value
  /\ visualizer' = SetMaxTrailLengthOn(visualizer, value)
  /\ UNCHANGED hist
  /\ UNCHANGED <<algorithm, distribution, isRunning, totalSamples, animationId>>
  /\ UNCHANGED <<timers, created, probe>>

\* the 200 ms timeout callback registered by an accept event.  Every pending
\* callback assigns the same constant, so one is observable exactly while the
\* flag is TRUE (the callback of the event that set it is then still pending)
FlashAcceptTimeout ==
  /\ visualizer.flashAccept
  /\ visualizer' = [visualizer EXCEPT !.flashAccept = FALSE]
  /\ UNCHANGED hist
  /\ UNCHANGED <<algorithm, distribution, isRunning, totalSamples, animationId>>
  /\ UNCHANGED <<timers, created, probe>>

\* the 200 ms timeout callback registered by a reject event (as above)
FlashRejectTimeout ==
  /\ visualizer.flashReject
  /\ visualizer' = [visualizer EXCEPT !.flashReject = FALSE]
  /\ UNCHANGED hist
  /\ UNCHANGED <<algorithm, distribution, isRunning, totalSamples, animationId>>
  /\ UNCHANGED <<timers, created, probe>>

\* the trajectory animation tick of App: advanceTrajectoryAnimation() while
\* isTrajectoryAnimating()
AdvanceTrajectoryAnimation ==
  /\ ~IsNull(visualizer.fullTrajectoryPath)
  /\ visualizer.trajectoryAnimationIndex < Len(Val(visualizer.fullTrajectoryPath)) - 1
  /\ visualizer' = [visualizer EXCEPT
        !.trajectoryAnimationIndex = @ + 1,
        !.trajectoryPath = Some(SubSeq(Val(visualizer.fullTrajectoryPath), 1,
                                       visualizer.trajectoryAnimationIndex + 2))]
  /\ UNCHANGED <<algorithm, distribution, isRunning, totalSamples, animationId, hist>>
  /\ UNCHANGED <<timers, created, probe>>

\* Simulation.play: nothing when running, else isRunning = true and animate(),
\* which steps and sets the delay timeout
Play ==
  /\ ~isRunning
  /\ timers.timeouts < MaxPending
  /\ isRunning' = TRUE
  /\ SimulationStep
  /\ timers' = [timers EXCEPT !.timeouts = @ + 1]
  /\ UNCHANGED <<distribution, animationId, created, probe>>

\* Simulation.pause
Pause ==
  /\ isRunning' = FALSE
  /\ animationId' = Null
  /\ timers' = CancelAnimationFrame(timers, animationId)
  /\ UNCHANGED <<algorithm, distribution, visualizer, totalSamples, hist, created, probe>>

\* Simulation.toggle
Toggle == IF isRunning THEN Pause ELSE Play

\* the callback given to setTimeout in animate:
\* animationId = requestAnimationFrame(animate)
DelayTimeout ==
  /\ timers.timeouts > 0
  /\ Len(timers.frames) < MaxPending
  /\ animationId' = Some(NewFrameId(timers))
  /\ timers' = [timers EXCEPT !.timeouts = @ - 1,
                              !.frames = Append(@, NewFrameId(timers))]
  /\ UNCHANGED <<algorithm, distribution, visualizer, isRunning, totalSamples,
                 hist, created, probe>>

\* an animate that steps without looking at isRunning
AnimationFrameUnchecked ==
  /\ Len(timers.frames) > 0
  /\ timers.timeouts < MaxPending
  /\ SimulationStep
  /\ timers' = [timers EXCEPT !.frames = Tail(@), !.timeouts = @ + 1]
  /\ UNCHANGED <<distribution, isRunning, animationId, created, probe>>

\* the oldest pending frame request runs animate: nothing when not running,
\* else step() and the next delay timeout
AnimationFrame ==
  /\ Len(timers.frames) > 0
  /\ IF isRunning
     THEN /\ timers.timeouts < MaxPending
          /\ SimulationStep
          /\ timers' = [timers EXCEPT !.frames = Tail(@), !.timeouts = @ + 1]
     ELSE /\ timers' = [timers EXCEPT !.frames = Tail(@)]
          /\ UNCHANGED <<algorithm, visualizer, totalSamples, hist>>
  /\ UNCHANGED <<distribution, isRunning, animationId, created, probe>>

Next ==
  \/ \E kind \in Kinds : SetAlgorithm(kind)
  \/ \E d \in Distributions : SetDistribution(d)
  \/ Reset
  \/ \E position \in StartPositions : SetStartPosition(position)
  \/ Step
  \/ \E name \in {"sigma", "epsilon", "L", "maxTreeDepth", "deltaMax", "gridResolution"} :
       /\ HasAlgorithm
       /\ name \in ParamNames(algorithm.kind)
       /\ \E value \in ParamValues(algorithm.kind, name) : SetParam(name, value)
  \/ \E value \in TrailInputs : SetMaxTrailLength(value)
  \/ FlashAcceptTimeout
  \/ FlashRejectTimeout

Spec == Init /\ [][Next]_vars

\* The handlers together with the trajectory animation tick, for the samplers
\* whose events reach every snapshot field (RWMH: radius; HMC: trajectory;
\* MALA: Langevin fields)
AnimKinds == {"rwmh", "hmc", "mala"}

AnimNext ==
  \/ \E kind \in AnimKinds : SetAlgorithm(kind)
  \/ \E d \in Distributions : SetDistribution(d)
  \/ Reset
  \/ \E position \in StartPositions : SetStartPosition(position)
  \/ Step
  \/ \E name \in {"sigma", "epsilon", "L"} :
       /\ HasAlgorithm
       /\ name \in ParamNames(algorithm.kind)
       /\ \E value \in ParamValues(algorithm.kind, name) : SetParam(name, value)
  \/ \E value \in TrailInputs : SetMaxTrailLength(value)
  \/ FlashAcceptTimeout
  \/ FlashRejectTimeout
  \/ AdvanceTrajectoryAnimation

AnimSpec == Init /\ [][AnimNext]_vars

\* HMC and MALA on the standard Gaussian with draws that may be infinite.  The
\* chain holds points of finite, infinite or NaN coordinates.
XInit ==
  /\ algorithm = NoAlgorithm
  /\ distribution = "gaussian"
  /\ visualizer = NewVisualizer
  /\ isRunning = FALSE
  /\ totalSamples = 0
  /\ animationId = Null
  /\ hist = NoHist
  /\ timers = NoTimers
  /\ created = <<>>
  /\ probe = [op |-> "none"]

\* Simulation.setAlgorithm with a newly constructed sampler, distribution bound
XSetAlgorithm(kind) ==
  LET s0 == InitializeSampler(SamplerSetDistribution(NewSampler(kind), distribution))
      s == [s0 EXCEPT !.chain = <<LiftPt(s0.chain[1])>>]
  IN /\ algorithm' = s
     /\ visualizer' = InitializeVisualizer(visualizer, s.chain)
     /\ totalSamples' = 0
     /\ hist' = ResetHist(Null)
     /\ UNCHANGED <<distribution, isRunning, animationId, timers, created, probe>>

\* Simulation.step
XStep ==
  /\ totalSamples < MaxSteps
  /\ HasAlgorithm
  /\ \E rx \in XRandnDraws, ry \in XRandnDraws, logU \in XLogUDraws :
       LET outcome == XStepOutcome(algorithm, rx, ry, logU)
       IN /\ algorithm' = outcome.s
          /\ visualizer' = DequeueAll([visualizer EXCEPT
                                         !.queue = @ \o outcome.events])
          /\ hist' = [hist EXCEPT !.steps = @ + 1,
                                  !.accepts = @ + CountAccepts(outcome.events),
                                  !.events = outcome.events]
  /\ totalSamples' = totalSamples + 1
  /\ UNCHANGED <<distribution, isRunning, animationId, timers, created, probe>>

XNext ==
  \/ \E kind \in XKinds : XSetAlgorithm(kind)
  \/ XStep
  \/ /\ HasAlgorithm
     /\ \E value \in ParamValues(algorithm.kind, "epsilon") : SetParam("epsilon", value)

XSpec == XInit /\ [][XNext]_vars

\* The registry ALGORITHMS (its keys, in order) and the keys createAlgorithm is
\* called with: the registered ones and two that are not
ALGORITHMS == <<"rwmh", "hmc", "nuts", "gibbs">>
AlgorithmKeys == {"rwmh", "hmc", "nuts", "gibbs", "mala", "unknown"}
MaxCalls == 3

\* ALGORITHMS.find(a => a.key === key): the index of the first match, 0 for
\* undefined
FindConfig(key) ==
  IF \E i \in 1..Len(ALGORITHMS) : ALGORITHMS[i] = key
  THEN CHOOSE i \in 1..Len(ALGORITHMS) :
         /\ ALGORITHMS[i] = key
         /\ \A j \in 1..(i - 1) : ALGORITHMS[j] # key
  ELSE 0

\* the number of sampler objects the calls recorded in c constructed
RECURSIVE Constructed(_)
Constructed(c) ==
  IF Len(c) = 0 THEN 0
  ELSE Constructed(SubSeq(c, 1, Len(c) - 1)) + (IF c[Len(c)].thrown THEN 0 ELSE 1)

\* a registry whose create returns one sampler object per key, made once
CreateAlgorithmShared(c, key) ==
  IF FindConfig(key) = 0
  THEN [key |-> key, thrown |-> TRUE, value |-> Null]
  ELSE [key |-> key, thrown |-> FALSE,
        value |-> Some([ref |-> FindConfig(key), sampler |-> NewSampler(key)])]

\* createAlgorithm(key) after the calls recorded in c: throws when find gives
\* undefined, else config.create(), whose  new X()  is an object with a
\* reference no earlier object has
CreateAlgorithmOn(c, key) ==
  IF FindConfig(key) = 0
  THEN [key |-> key, thrown |-> TRUE, value |-> Null]
  ELSE [key |-> key, thrown |-> FALSE,
        value |-> Some([ref |-> Constructed(c) + 1, sampler |-> NewSampler(key)])]

\* a call of createAlgorithm; created records the outcome of every call
CreateAlgorithm(key) ==
  /\ Len(created) < MaxCalls
  /\ created' = Append(created, CreateAlgorithmOn(created, key))
  /\ UNCHANGED <<algorithm, distribution, visualizer, isRunning, totalSamples,
                 animationId, hist, timers, probe>>

FactoryNext == \E key \in AlgorithmKeys : CreateAlgorithm(key)

FactorySpec == Init /\ [][FactoryNext]_vars

\* The simulation as App constructs it (standard Gaussian, then a RWMH sampler
\* from createAlgorithm), driven by play, pause, toggle, reset and the pending
\* callbacks of animate
LoopInit ==
  LET s == InitializeSampler(SamplerSetDistribution(NewSampler("rwmh"), "gaussian"))
  IN /\ algorithm = s
     /\ distribution = "gaussian"
     /\ visualizer = InitializeVisualizer(NewVisualizer, s.chain)
     /\ isRunning = FALSE
     /\ totalSamples = 0
     /\ animationId = Null
     /\ hist = ResetHist(Null)
     /\ timers = NoTimers
     /\ created = <<>>
     /\ probe = [op |-> "none"]

LoopNext ==
  \/ Play
  \/ Pause
  \/ Toggle
  \/ Reset
  \/ DelayTimeout
  \/ AnimationFrame

LoopSpec == LoopInit /\ [][LoopNext]_vars

\* The functions of the samplers called directly, as a unit test calls them:
\* probe holds the arguments of the call and, once it has returned, its result
ProbeVectors == { Pt(a, b) : a \in {0 - Scale, 0, Scale}, b \in {0 - Scale, 0, Scale} }

\* a Simulation as constructed, nothing bound, on which no method is called
IdleSimulation ==
  /\ algorithm = NoAlgorithm
  /\ distribution = "null"
  /\ visualizer = NewVisualizer
  /\ isRunning = FALSE
  /\ totalSamples = 0
  /\ animationId = Null
  /\ hist = NoHist
  /\ timers = NoTimers
  /\ created = <<>>

UTurnInit ==
  /\ IdleSimulation
  /\ \E qMinus \in ProbeVectors, qPlus \in ProbeVectors,
        pMinus \in ProbeVectors, pPlus \in ProbeVectors :
       probe = [op |-> "checkUTurn", qMinus |-> qMinus, qPlus |-> qPlus,
                pMinus |-> pMinus, pPlus |-> pPlus, result |-> Null]

\* the call checkUTurn(qMinus, qPlus, pMinus, pPlus) returns
CallCheckUTurn ==
  /\ probe.op = "checkUTurn"
  /\ IsNull(probe.result)
  /\ probe' = [probe EXCEPT !.result = Some(CheckUTurn(probe.qMinus, probe.qPlus,
                                                       probe.pMinus, probe.pPlus))]
  /\ UNCHANGED <<algorithm, distribution, visualizer, isRunning, totalSamples,
                 animationId, hist, timers, created>>

UTurnSpec == UTurnInit /\ [][CallCheckUTurn]_vars

\* a loop condition that admits one doubling more
LoopContinuesOneMore(s, st) == st.s /\ st.j <= s.maxTreeDepth

\* the condition of  while (s && j < this.maxTreeDepth)
LoopContinues(s, st) == st.s /\ st.j < s.maxTreeDepth

\* One NUTS.step followed through its while loop, iteration by iteration.  The
\* sampler is bound to the Gaussian and reset to a start position, and its
\* public parameters are as written from outside.  probe holds the locals of
\* step: p0, H0, the logarithm of the slice variable u, the loop state st
\* (qMinus, pMinus, qPlus, pPlus, q, n, s, j), and of the last iteration the
\* loop state before it, its direction v, its subtree and its selection draw r;
\* leapfrogs counts the calls of leapfrog so far.
\* The start is the origin or (-1, -1), the momentum draws are -1 and 1, and
\* ln(Math.random()) of the slice variable is that of a draw close to 1, the
\* largest slice.
TreeInit ==
  \E q0 \in {Origin, Pt(0 - Scale, 0 - Scale)},
     rx \in {0 - Scale, Scale}, ry \in {0 - Scale, Scale},
     logR \in {0 - 1},
     epsilon \in {DefaultEpsilonNUTS, Scale \div 2, Scale},
     deltaMax \in {DefaultDeltaMax, 0},
     maxTreeDepth \in 1..(MaxTreeDepthModelled + 1) :
    LET s == [SamplerReset(SamplerSetDistribution(NewSampler("nuts"), "gaussian"),
                           Some(q0))
                EXCEPT !.epsilon = epsilon, !.deltaMax = deltaMax,
                       !.maxTreeDepth = maxTreeDepth]
        p0 == Pt(rx, ry)
        H0 == Hamiltonian(s.distribution, q0, p0)
    IN /\ algorithm = s
       /\ distribution = "gaussian"
       /\ visualizer = SeedVisualizer(VisualizerReset(NewVisualizer), q0)
       /\ isRunning = FALSE
       /\ totalSamples = 0
       /\ animationId = Null
       /\ hist = ResetHist(Some(q0))
       /\ timers = NoTimers
       /\ created = <<>>
       /\ probe = [op |-> "nutsStep", p0 |-> p0, H0 |-> H0, logSlice |-> logR - H0,
                   st |-> [qMinus |-> q0, pMinus |-> p0, qPlus |-> q0, pPlus |-> p0,
                           q |-> q0, n |-> 1, s |-> TRUE, j |-> 0],
                   last |-> Null, leapfrogs |-> 0]

\* one iteration of  while (s && j < this.maxTreeDepth)
TreeDoubling ==
  /\ probe.op = "nutsStep"
  /\ LoopContinues(algorithm, probe.st)
  /\ \E rv \in UnifDraws, r \in UnifDraws :
       LET st == probe.st
           v == Direction(rv)
       IN \E tree \in IF v = -1
                      THEN BuildTree(algorithm, st.qMinus, st.pMinus, probe.logSlice,
                                     -1, st.j, probe.H0)
                      ELSE BuildTree(algorithm, st.qPlus, st.pPlus, probe.logSlice,
                                     1, st.j, probe.H0) :
            probe' = [probe EXCEPT
                        !.st = DoublingStep(st, v, tree, r),
                        !.last = Some([st |-> st, v |-> v, tree |-> tree, r |-> r]),
                        !.leapfrogs = @ + tree.nAlphaPrime]
  /\ UNCHANGED <<algorithm, distribution, visualizer, isRunning, totalSamples,
                 animationId, hist, timers, created>>

\* the loop has ended: the rest of NUTS.step, then dequeueAll() and
\* totalSamples++ of Simulation.step
TreeFinish ==
  /\ probe.op = "nutsStep"
  /\ ~LoopContinues(algorithm, probe.st)
  /\ LET outcome == NUTSTail(algorithm, Last(algorithm.chain), probe.st.q)
     IN /\ algorithm' = outcome.s
        /\ visualizer' = DequeueAll([visualizer EXCEPT !.queue = @ \o outcome.events])
        /\ hist' = [hist EXCEPT !.steps = @ + 1,
                                !.accepts = @ + CountAccepts(outcome.events),
                                !.events = outcome.events]
  /\ totalSamples' = totalSamples + 1
  /\ probe' = [probe EXCEPT !.op = "nutsStepDone"]
  /\ UNCHANGED <<distribution, isRunning, animationId, timers, created>>

TreeNext == TreeDoubling \/ TreeFinish

TreeSpec == TreeInit /\ [][TreeNext]_vars

\* step() runs to completion once called: nothing suspends a synchronous call
TreeLiveSpec == TreeInit /\ [][TreeNext]_vars /\ WF_vars(TreeNext)

\* The Gibbs sampler started inside the plotted region and far outside it, at
\* (0, 40), where Math.exp(-0.5 r2) underflows to 0 along the whole row
GibbsNext ==
  \/ SetAlgorithm("gibbs")
  \/ \E d \in Distributions : SetDistribution(d)
  \/ \E position \in {Pt(0, 40 * Scale), Pt(0 - Scale, 0 - Scale)} : SetStartPosition(position)
  \/ Step
  \/ /\ HasAlgorithm
     /\ \E value \in ParamValues("gibbs", "gridResolution") :
          SetParam("gridResolution", value)

GibbsSpec == Init /\ [][GibbsNext]_vars

\* The round trip of the leapfrog integrator: L calls of leapfrogStep from
\* (q0, p0), the momentum negated, L calls more.  probe holds the start, the
\* step size, L, the running point (q, p), the leg (1 out, 2 back) and the
\* number i of calls made on the leg.  The momenta are randn() values, which
\* include the infinities; the runs are those whose exact numbers fit the
\* integers of the checker.
RoundTripInit ==
  /\ IdleSimulation
  /\ \E qx \in {Rat(0 - 1, 1), Rat(0, 1), Rat(3, 2)},
        qy \in {Rat(0 - 1, 1), Rat(0, 1), Rat(3, 2)},
        px \in {Rat(0 - 1, 2), Rat(1, 1), [k |-> "inf", n |-> 1, d |-> 1]},
        py \in {Rat(0 - 1, 2), Rat(1, 1), [k |-> "inf", n |-> 1, d |-> 1]},
        run \in {[epsilon |-> Rat(1, 10), L |-> 1], [epsilon |-> Rat(1, 2), L |-> 1],
                 [epsilon |-> Rat(1, 2), L |-> 2], [epsilon |-> Rat(1, 1), L |-> 3],
                 [epsilon |-> Rat(2, 1), L |-> 5]} :
       probe = [op |-> "roundTrip",
                q0 |-> [x |-> qx, y |-> qy], p0 |-> [x |-> px, y |-> py],
                epsilon |-> run.epsilon, L |-> run.L,
                q |-> [x |-> qx, y |-> qy], p |-> [x |-> px, y |-> py],
                leg |-> 1, i |-> 0]

\* one call of leapfrogStep
RoundTripStep ==
  /\ probe.op = "roundTrip"
  /\ probe.i < probe.L
  /\ \E result \in {RLeapfrogStep(probe.q, probe.p, probe.epsilon)} :
       probe' = [probe EXCEPT !.q = result.q, !.p = result.p, !.i = @ + 1]
  /\ UNCHANGED <<algorithm, distribution, visualizer, isRunning, totalSamples,
                 animationId, hist, timers, created>>

\* the end of the first leg: the momentum is negated
RoundTripTurn ==
  /\ probe.op = "roundTrip"
  /\ probe.leg = 1
  /\ probe.i = probe.L
  /\ probe' = [probe EXCEPT !.p = [x |-> RNeg(probe.p.x), y |-> RNeg(probe.p.y)],
                            !.leg = 2, !.i = 0]
  /\ UNCHANGED <<algorithm, distribution, visualizer, isRunning, totalSamples,
                 animationId, hist, timers, created>>

RoundTripSpec == RoundTripInit /\ [][RoundTripStep \/ RoundTripTurn]_vars

---------------------------------------------------------------------------
(* Properties *)

\* C1: for every sampler and whatever the chain held before, after reset(p)
\* the chain is exactly <<p>>, and after reset() without an argument it is
\* exactly <<(0,0)>>
C1_ResetChain ==
  (HasAlgorithm /\ hist.reset /\ hist.steps = 0) =>
     algorithm.chain = <<IF IsNull(hist.arg) THEN Origin ELSE Val(hist.arg)>>

\* a NUTS sampler reset to the start position (1,0) after an accepted step
C1_Witness ==
  /\ algorithm.kind = "nuts"
  /\ hist.reset /\ hist.steps = 0
  /\ hist.arg = Some(Pt(0 - Scale, 0 - Scale))
  /\ algorithm.chain = <<Pt(0 - Scale, 0 - Scale)>>
  /\ visualizer.flashAccept

\* C2: for RWMH, HMC, NUTS and MALA, after reset() and N calls of step() with
\* a distribution bound the chain has N + 1 entries, accepted or rejected
C2_ChainLength ==
  (HasAlgorithm /\ algorithm.kind \in MHKinds /\ hist.reset) =>
     Len(algorithm.chain) = hist.steps + 1

\* RWMH after one accepted and one rejected step
C2_Witness ==
  /\ algorithm.kind = "rwmh"
  /\ hist.steps = 2
  /\ algorithm.acceptCount = 1
  /\ Len(algorithm.chain) = 3

\* C3: the chain is append-only: a step() leaves every existing entry where it
\* is and appends at the end, and the chain gets shorter only through reset()
\* (or on a newly constructed sampler)
C3_AppendOnly ==
  [][ /\ totalSamples' = totalSamples + 1 =>
           /\ Len(algorithm'.chain) >= Len(algorithm.chain)
           /\ SubSeq(algorithm'.chain, 1, Len(algorithm.chain)) = algorithm.chain
      /\ (HasAlgorithm /\ Len(algorithm'.chain) < Len(algorithm.chain)) =>
           /\ hist'.steps = 0
           /\ hist'.reset => Len(algorithm'.chain) = 1
    ]_vars

\* NUTS after two steps, the first of them accepted
C3_Witness ==
  /\ algorithm.kind = "nuts"
  /\ Len(algorithm.chain) = 3
  /\ algorithm.chain[2] # algorithm.chain[1]
  /\ algorithm.acceptCount >= 1

\* C4: in every reachable state the trail is no longer than its capacity:
\* acceptedSamples.length <= maxTrailLength
C4_TrailWithinCapacity ==
  Len(visualizer.acceptedSamples) <= visualizer.maxTrailLength

\* C5 as stated: the length of the sample log equals the number of accept
\* events folded since the last reset
C5_LogCountsAccepts ==
  Len(visualizer.allSamples) = hist.accepts

\* C5: the sample log holds the start point that initialize and
\* setStartPosition seed it with, followed by one entry per accept event folded
\* since; it is empty until the first of these calls
C5_LogCountsAcceptsAndSeed ==
  Len(visualizer.allSamples) = hist.accepts + (IF hist.seeded THEN 1 ELSE 0)

\* MALA after two accepted steps: the log holds the start and the two samples
C5_Witness ==
  /\ algorithm.kind = "mala"
  /\ hist.seeded
  /\ hist.accepts = 2
  /\ Len(visualizer.allSamples) = 3

\* C6: dequeueAll folds the events in the order they were pushed and leaves the
\* queue empty, so the queue is empty after every Simulation.step: the event
\* pushed last (accept or reject) decides the proposal status, the proposal
\* shown is the one of the step, and the log ends with the samples in the
\* order the step pushed them
C6_FifoDrain ==
  /\ visualizer.queue = <<>>
  /\ (HasAlgorithm /\ hist.steps > 0) =>
       LET chain == algorithm.chain
           log == visualizer.allSamples
       IN /\ visualizer.proposalAccepted \in {"true", "false"}
          /\ visualizer.proposalAccepted = "true" =>
               /\ visualizer.pendingPosition = Some(Last(chain))
               /\ Last(log) = Last(chain)
          /\ visualizer.proposalAccepted = "false" =>
               /\ IsNull(visualizer.pendingPosition)
               /\ Last(chain) = chain[Len(chain) - 1]
          /\ algorithm.kind = "gibbs" =>
               /\ visualizer.proposalPosition = Some(Last(chain))
               /\ log[Len(log) - 1] = Pt(Last(chain).x, chain[Len(chain) - 1].y)

\* a Gibbs step folded: the log holds start, intermediate and next
C6_Witness ==
  /\ algorithm.kind = "gibbs"
  /\ hist.steps = 1
  /\ Len(visualizer.allSamples) = 3
  /\ visualizer.queue = <<>>
  /\ visualizer.proposalAccepted = "true"

\* C7: from any state, Visualizer.reset() leaves the queue and every snapshot
\* field at its initial value: positions unset, proposal radius 0, flash flags
\* off, trail and log empty, path and momentum unset, Langevin fields cleared
C7_ResetClearsEveryField ==
  LET v == VisualizerReset(visualizer)
  IN /\ v.queue = <<>>
     /\ IsNull(v.currentPosition) /\ IsNull(v.proposalPosition)
     /\ v.proposalRadius = 0
     /\ ~v.flashAccept /\ ~v.flashReject
     /\ v.proposalAccepted = "null"
     /\ v.acceptedSamples = <<>> /\ v.allSamples = <<>>
     /\ IsNull(v.trajectoryPath) /\ IsNull(v.momentum)
     /\ IsNull(v.langevinGradient) /\ IsNull(v.langevinDriftPoint)
     /\ v.langevinNoiseRadius = 0
     /\ IsNull(v.pendingPosition) /\ IsNull(v.pendingSample)

\* C8 as stated: after setAlgorithm, setDistribution, setStartPosition or
\* reset the chain of the bound sampler has one element, the sink holds only
\* that start point and totalSamples is 0
C8_AlwaysResetTogether ==
  [][ ( /\ \/ \E kind \in Kinds : SetAlgorithm(kind)
           \/ \E d \in Distributions : SetDistribution(d)
           \/ \E position \in StartPositions : SetStartPosition(position)
           \/ Reset
        /\ algorithm'.kind # "null" )
      => /\ Len(algorithm'.chain) = 1
         /\ visualizer'.queue = <<>>
         /\ IsNull(visualizer'.pendingPosition) /\ IsNull(visualizer'.pendingSample)
         /\ visualizer'.allSamples = <<algorithm'.chain[1]>>
         /\ visualizer'.acceptedSamples = <<algorithm'.chain[1]>>
         /\ visualizer'.currentPosition = Some(algorithm'.chain[1])
         /\ totalSamples' = 0
    ]_vars

\* C8: chain and sink are reset together by setStartPosition once an algorithm
\* is bound, and by setAlgorithm, setDistribution and reset once the algorithm
\* and the distribution are both bound: the chain then has one element, the
\* queue is empty, nothing is pending, log and trail hold only that start
\* point, currentPosition equals it and totalSamples is 0.  While both are
\* bound the log starts with the chain's start point in every state, and a
\* chain of one element goes with a log of that one element
C8_ResetTogetherOnceBound ==
  [][ /\ ( \/ (\E kind \in Kinds : SetAlgorithm(kind)) /\ distribution # "null"
           \/ (\E d \in Distributions : SetDistribution(d)) /\ HasAlgorithm
           \/ (\E position \in StartPositions : SetStartPosition(position))
                /\ HasAlgorithm
           \/ Reset /\ HasAlgorithm /\ distribution # "null" )
         => /\ Len(algorithm'.chain) = 1
            /\ visualizer'.queue = <<>>
            /\ IsNull(visualizer'.pendingPosition) /\ IsNull(visualizer'.pendingSample)
            /\ visualizer'.allSamples = <<algorithm'.chain[1]>>
            /\ visualizer'.acceptedSamples = <<algorithm'.chain[1]>>
            /\ visualizer'.currentPosition = Some(algorithm'.chain[1])
            /\ totalSamples' = 0
      /\ (algorithm'.kind # "null" /\ distribution' # "null")
         => /\ Len(algorithm'.chain) >= 1
            /\ Len(visualizer'.allSamples) >= 1
            /\ visualizer'.allSamples[1] = algorithm'.chain[1]
            /\ Len(algorithm'.chain) = 1 =>
                 /\ Len(visualizer'.allSamples) = 1
                 /\ IsNull(visualizer'.pendingSample)
                 /\ totalSamples' = 0
    ]_vars

\* the pair reset to the start position (1,0) after an accepted step with
\* algorithm and distribution bound
C8_Witness ==
  /\ HasAlgorithm /\ distribution # "null"
  /\ hist.arg = Some(Pt(0 - Scale, 0 - Scale)) /\ hist.steps = 0
  /\ visualizer.flashAccept
  /\ algorithm.chain = <<Pt(0 - Scale, 0 - Scale)>>
  /\ visualizer.allSamples = <<Pt(0 - Scale, 0 - Scale)>>
  /\ totalSamples = 0

\* C9: init() returns every parameter of the sampler to its default whatever
\* was set before: RWMH sigma 0.5; HMC epsilon 0.1, L 20; NUTS epsilon 0.1,
\* maxTreeDepth 10, deltaMax 1000; MALA epsilon 0.3; Gibbs gridResolution 200
C9_InitRestoresDefaults ==
  HasAlgorithm =>
    LET s == SamplerInit(algorithm)
    IN CASE s.kind = "rwmh" -> s.sigma = DefaultSigma
         [] s.kind = "hmc" -> s.epsilon = DefaultEpsilonHMC /\ s.L = DefaultL
         [] s.kind = "nuts" -> /\ s.epsilon = DefaultEpsilonNUTS
                               /\ s.maxTreeDepth = DefaultMaxTreeDepth
                               /\ s.deltaMax = DefaultDeltaMax
         [] s.kind = "mala" -> s.epsilon = DefaultEpsilonMALA
         [] s.kind = "gibbs" -> s.gridResolution = DefaultGridResolution

\* C10: for RWMH, HMC, MALA and NUTS, 0 <= acceptCount <= totalSteps, totalSteps
\* is the number of steps since the last reset, which is chain.length - 1, and
\* getAcceptanceRate() is acceptCount / totalSteps, 0 when no step was taken,
\* and lies in [0, 1]
C10_AcceptanceCounters ==
  (HasAlgorithm /\ algorithm.kind \in MHKinds) =>
     /\ 0 <= algorithm.acceptCount
     /\ algorithm.acceptCount <= algorithm.totalSteps
     /\ algorithm.totalSteps = hist.steps
     /\ hist.reset => algorithm.totalSteps = Len(algorithm.chain) - 1
     /\ algorithm.totalSteps = 0 => GetAcceptanceRate(algorithm) = 0
     /\ algorithm.totalSteps > 0 =>
          /\ GetAcceptanceRate(algorithm) * algorithm.totalSteps
               <= algorithm.acceptCount * Scale
          /\ (GetAcceptanceRate(algorithm) + 1) * algorithm.totalSteps
               > algorithm.acceptCount * Scale
     /\ GetAcceptanceRate(algorithm) >= 0
     /\ GetAcceptanceRate(algorithm) <= Scale

\* HMC after one accepted and one rejected step: the rate is one half
C10_Witness ==
  /\ algorithm.kind = "hmc"
  /\ algorithm.totalSteps = 2
  /\ algorithm.acceptCount = 1
  /\ GetAcceptanceRate(algorithm) = Scale \div 2

\* C11: each RWMH step() pushes exactly two events: first
\* proposal(from = current state, to = x', radius = sigma), x' being the current
\* state moved by sigma times the two normal draws, then exactly one of accept(x')
\* and reject(x')
C11_RWMHEvents ==
  [][ (algorithm.kind = "rwmh" /\ hist'.steps = hist.steps + 1) =>
        LET ev == hist'.events
            current == Last(algorithm.chain)
        IN /\ Len(ev) = 2
           /\ ev[1].type = "proposal"
           /\ ev[1].from = current
           /\ ev[1].radius = algorithm.sigma
           /\ \E rx \in RandnDraws, ry \in RandnDraws :
                ev[1].to = Pt(current.x + FxMul(rx, algorithm.sigma),
                              current.y + FxMul(ry, algorithm.sigma))
           /\ ev[2].type \in {"accept", "reject"}
           /\ ev[2].position = ev[1].to
    ]_vars

\* an RWMH step that proposed with sigma 1.0 and rejected
C11_Witness ==
  /\ algorithm.kind = "rwmh"
  /\ hist.steps >= 1
  /\ Len(hist.events) = 2
  /\ hist.events[1].type = "proposal" /\ hist.events[1].radius = Scale
  /\ hist.events[2].type = "reject"

\* C12: for RWMH, HMC and MALA the entry a step appends agrees with the event
\* it emits: with accept(x') the appended entry is the proposal x' and
\* acceptCount grows by one; with reject(x') the appended entry is the previous
\* last entry, acceptCount is unchanged and the event carries the proposal
C12_EntryAgreesWithEvent ==
  [][ (algorithm.kind \in {"rwmh", "hmc", "mala"} /\ hist'.steps = hist.steps + 1) =>
        LET ev == hist'.events
            verdict == ev[Len(ev)]
            proposal == ev[Len(ev) - 1]
        IN /\ Len(ev) >= 2
           /\ proposal.type = "proposal"
           /\ verdict.type \in {"accept", "reject"}
           /\ verdict.position = proposal.to
           /\ Len(algorithm'.chain) = Len(algorithm.chain) + 1
           /\ verdict.type = "accept" =>
                /\ Last(algorithm'.chain) = proposal.to
                /\ algorithm'.acceptCount = algorithm.acceptCount + 1
           /\ verdict.type = "reject" =>
                /\ Last(algorithm'.chain) = Last(algorithm.chain)
                /\ algorithm'.acceptCount = algorithm.acceptCount
    ]_vars

\* a MALA step that rejected a proposal away from the current state, after an
\* accepted one
C12_Witness ==
  /\ algorithm.kind = "mala"
  /\ hist.steps = 2
  /\ algorithm.acceptCount = 1
  /\ hist.events[3].type = "reject"
  /\ hist.events[3].position # Last(algorithm.chain)
  /\ algorithm.chain[3] = algorithm.chain[2]

\* C14 as stated: the snapshot fields of the visualizer (current position,
\* proposal position and radius, flash flags, trail, sample log, trajectory,
\* momentum, Langevin fields) change only in a transition that is a step's fold.
C14_OnlyFoldWrites ==
  [][ LET Snapshot(u) == <<u.currentPosition, u.proposalPosition, u.proposalRadius,
                           u.flashAccept, u.flashReject, u.acceptedSamples,
                           u.allSamples, u.trajectoryPath, u.momentum,
                           u.langevinGradient, u.langevinDriftPoint,
                           u.langevinNoiseRadius>>
      IN Snapshot(visualizer') # Snapshot(visualizer) =>
           totalSamples' = totalSamples + 1
    ]_vars

\* C14 amended: outside a step's fold and outside the reset-and-seed of
\* initialize (reset, setStartPosition, setAlgorithm, setDistribution), the
\* current position, proposal position, sample log, momentum and Langevin fields
\* never change; the trail changes only by losing entries at its front when
\* maxTrailLength is assigned; a flash flag changes only by being lowered by its
\* timer, with nothing else changing; the displayed trajectory changes only by
\* growing by the next point of the folded path; and the proposal radius
\* changes only to the sigma just assigned to a RWMH sampler.
C14_SnapshotWriters ==
  [][ LET v == visualizer
          w == visualizer'
          fold == totalSamples' = totalSamples + 1
          reseed == \/ Reset
                    \/ \E position \in StartPositions : SetStartPosition(position)
                    \/ \E kind \in AnimKinds : SetAlgorithm(kind)
                    \/ \E d \in Distributions : SetDistribution(d)
          Core(u) == <<u.currentPosition, u.proposalPosition, u.allSamples,
                       u.momentum, u.langevinGradient, u.langevinDriftPoint,
                       u.langevinNoiseRadius>>
      IN ~(fold \/ reseed) =>
           /\ Core(w) = Core(v)
           /\ w.acceptedSamples # v.acceptedSamples =>
                /\ w.maxTrailLength # v.maxTrailLength
                /\ \E k \in 1..Len(v.acceptedSamples) :
                     w.acceptedSamples =
                       SubSeq(v.acceptedSamples, k + 1, Len(v.acceptedSamples))
           /\ w.flashAccept # v.flashAccept => w = [v EXCEPT !.flashAccept = FALSE]
           /\ w.flashReject # v.flashReject => w = [v EXCEPT !.flashReject = FALSE]
           /\ w.trajectoryPath # v.trajectoryPath =>
                /\ ~IsNull(v.fullTrajectoryPath)
                /\ ~IsNull(v.trajectoryPath)
                /\ w.trajectoryPath =
                     Some(SubSeq(Val(v.fullTrajectoryPath), 1,
                                 Len(Val(v.trajectoryPath)) + 1))
           /\ w.proposalRadius # v.proposalRadius =>
                /\ algorithm.kind = "rwmh"
                /\ algorithm'.sigma # algorithm.sigma
                /\ w.proposalRadius = algorithm'.sigma
    ]_vars

\* the animation tick has extended an HMC trajectory, the accept timer has
\* lowered its flag and the trail capacity has been reassigned with a
\* non-empty trail
C14_Witness ==
  /\ algorithm.kind = "hmc"
  /\ hist.accepts >= 1
  /\ ~visualizer.flashAccept
  /\ visualizer.trajectoryAnimationIndex >= 2
  /\ ~IsNull(visualizer.trajectoryPath)
  /\ Len(Val(visualizer.trajectoryPath)) = visualizer.trajectoryAnimationIndex + 1
  /\ visualizer.maxTrailLength = 1
  /\ Len(visualizer.acceptedSamples) = 1
  /\ Len(visualizer.allSamples) = 2

\* C19: at most one continuation of animate (a delay timeout or a frame request
\* that will run it) is pending at any time.
C19_OneContinuation == timers.timeouts + Len(timers.frames) <= 1

\* C15: every call of createAlgorithm with a key that is not registered in
\* ALGORITHMS has thrown and returned no sampler; every call with a registered
\* key has returned a sampler of that key in its constructed state, an object
\* that no earlier call returned.
C15_FailFastAndFresh ==
  \A i \in 1..Len(created) :
    LET o == created[i]
        registered == \E k \in 1..Len(ALGORITHMS) : ALGORITHMS[k] = o.key
    IN /\ ~registered => o.thrown /\ IsNull(o.value)
       /\ registered =>
            /\ ~o.thrown
            /\ ~IsNull(o.value)
            /\ Val(o.value).sampler = NewSampler(o.key)
            /\ \A j \in 1..(i - 1) :
                 ~created[j].thrown => Val(created[j].value).ref # Val(o.value).ref

\* the same registered key was asked for twice, with a failing call in between
C15_Witness ==
  /\ Len(created) = 3
  /\ created[1].key = "hmc" /\ ~created[1].thrown
  /\ created[2].key = "unknown" /\ created[2].thrown
  /\ created[3].key = "hmc" /\ ~created[3].thrown
  /\ Val(created[3].value).sampler.kind = "hmc"

\* C16: a Gibbs step pushes exactly four events, proposal(current ->
\* intermediate), accept(intermediate), proposal(intermediate -> next),
\* accept(next), where intermediate keeps the current y and next keeps the
\* intermediate x; none is a reject, and the chain grows by the one entry next.
C16_GibbsEvents ==
  [][ (algorithm.kind = "gibbs" /\ hist'.steps = hist.steps + 1) =>
        LET ev == hist'.events
            current == Last(algorithm.chain)
            next == Last(algorithm'.chain)
        IN /\ Len(ev) = 4
           /\ ev[1].type = "proposal" /\ ev[1].from = current
           /\ ev[1].to.y = current.y
           /\ ev[2].type = "accept" /\ ev[2].position = ev[1].to
           /\ ev[3].type = "proposal" /\ ev[3].from = ev[1].to /\ ev[3].to = next
           /\ next.x = ev[1].to.x
           /\ ev[4].type = "accept" /\ ev[4].position = next
           /\ \A i \in 1..Len(ev) : ev[i].type # "reject"
           /\ algorithm'.chain = Append(algorithm.chain, next)
    ]_vars

\* a Gibbs step has moved x in its first half and y in its second
C16_Witness ==
  /\ algorithm.kind = "gibbs"
  /\ hist.steps >= 1
  /\ Len(hist.events) = 4
  /\ hist.events[1].to.x # hist.events[1].from.x
  /\ hist.events[3].to.y # hist.events[3].from.y
  /\ Last(algorithm.chain) = hist.events[4].position

\* C17: the events of a MALA step are exactly a langevin event (gradient at
\* the current state, drift point, noise radius), then a proposal event, then
\* one accept or reject event.
C17_LangevinFirst ==
  [][ (algorithm.kind = "mala" /\ hist'.steps = hist.steps + 1) =>
        LET ev == hist'.events
            current == Last(algorithm.chain)
        IN /\ Len(ev) = 3
           /\ ev[1].type = "langevin"
           /\ ev[1].gradient = Gradient(algorithm.distribution, current)
           /\ ev[1].driftPoint = ProposalMean(algorithm, current)
           /\ ev[1].noiseRadius = SqrtFx(algorithm.epsilon)
           /\ ev[2].type = "proposal" /\ ev[2].from = current
           /\ ev[3].type \in {"accept", "reject"}
    ]_vars

\* a MALA step with a gradient that is not zero has been accepted
C17_Witness ==
  /\ algorithm.kind = "mala"
  /\ hist.steps >= 1
  /\ Len(hist.events) = 3
  /\ hist.events[1].type = "langevin"
  /\ hist.events[1].gradient # Pt(0, 0)
  /\ hist.events[1].driftPoint # hist.events[2].from
  /\ hist.events[3].type = "accept"

\* C18: a NUTS step appends one chain entry and pushes one proposal event and
\* then one accept or reject event, never a trajectory event; the event is a
\* reject exactly when the selected point is the step's starting point, and
\* then the starting point is the appended entry.
C18_NUTSEvents ==
  [][ (algorithm.kind = "nuts" /\ hist'.steps = hist.steps + 1) =>
        LET ev == hist'.events
            q0 == Last(algorithm.chain)
        IN /\ Len(algorithm'.chain) = Len(algorithm.chain) + 1
           /\ Len(ev) = 2
           /\ ev[1].type = "proposal" /\ ev[1].from = q0
           /\ ev[2].type \in {"accept", "reject"}
           /\ ev[2].position = ev[1].to
           /\ (ev[2].type = "reject") <=> (ev[1].to = q0)
           /\ ev[2].type = "reject" => Last(algorithm'.chain) = q0
           /\ ev[2].type = "accept" => Last(algorithm'.chain) = ev[1].to
           /\ \A i \in 1..Len(ev) : ev[i].type # "trajectory"
    ]_vars

\* a NUTS step that selected its starting point, after one that moved
C18_Witness ==
  /\ algorithm.kind = "nuts"
  /\ hist.steps = 2
  /\ algorithm.acceptCount = 1
  /\ Len(algorithm.chain) = 3
  /\ hist.events[2].type = "reject"
  /\ algorithm.chain[3] = algorithm.chain[2]
  /\ algorithm.chain[2] # algorithm.chain[1]

\* C20: an HMC step with leapfrog count L pushes a trajectory event and then a
\* proposal event; the path has L + 1 points, the first the step's current
\* position and the last the proposal's target.
C20_TrajectoryPath ==
  [][ (algorithm.kind = "hmc" /\ hist'.steps = hist.steps + 1) =>
        LET ev == hist'.events
            current == Last(algorithm.chain)
        IN /\ Len(ev) = 3
           /\ ev[1].type = "trajectory"
           /\ ev[2].type = "proposal"
           /\ Len(ev[1].path) = algorithm.L + 1
           /\ ev[1].path[1] = current
           /\ ev[1].path[Len(ev[1].path)] = ev[2].to
    ]_vars

\* an HMC step with L = 5 has recorded six points ending away from the start
C20_Witness ==
  /\ algorithm.kind = "hmc"
  /\ algorithm.L = 5
  /\ hist.steps >= 1
  /\ Len(hist.events) = 3
  /\ hist.events[1].type = "trajectory"
  /\ Len(hist.events[1].path) = 6
  /\ hist.events[1].path[6] = hist.events[2].to
  /\ hist.events[1].path[6] # hist.events[1].path[1]

C21_TrajectoryMomentum ==
  [][ (algorithm.kind = "hmc" /\ hist'.steps = hist.steps + 1) =>
        /\ ~IsNull(hist'.events[1].momentum)
        /\ ~IsNull(visualizer'.momentum)
        /\ \E rx \in RandnDraws, ry \in RandnDraws :
             LET run == LeapfrogLoop(algorithm.distribution, Last(algorithm.chain),
                                     Pt(rx, ry), algorithm.epsilon, algorithm.L,
                                     <<Last(algorithm.chain)>>)
             IN /\ hist'.events[1].path = run.trajectory
                /\ visualizer'.momentum = Some(Pt(0 - run.p.x, 0 - run.p.y))
    ]_vars

\* C22: checkUTurn(qMinus, qPlus, pMinus, pPlus) returns true exactly when
\* (qPlus - qMinus).pMinus >= 0 and (qPlus - qMinus).pPlus >= 0, and false
\* otherwise; it returns true for qMinus = (-1,0), qPlus = (1,0),
\* pMinus = pPlus = (1,0), and false for the same with pPlus = (-1,0).
C22_UTurnPredicate ==
  (probe.op = "checkUTurn" /\ ~IsNull(probe.result)) =>
    LET dx == probe.qPlus.x - probe.qMinus.x
        dy == probe.qPlus.y - probe.qMinus.y
        dotMinus == dx * probe.pMinus.x + dy * probe.pMinus.y
        dotPlus == dx * probe.pPlus.x + dy * probe.pPlus.y
        example == /\ probe.qMinus = Pt(0 - Scale, 0) /\ probe.qPlus = Pt(Scale, 0)
                   /\ probe.pMinus = Pt(Scale, 0)
    IN /\ Val(probe.result) <=> (dotMinus >= 0 /\ dotPlus >= 0)
       /\ (example /\ probe.pPlus = Pt(Scale, 0)) => Val(probe.result)
       /\ (example /\ probe.pPlus = Pt(0 - Scale, 0)) => ~Val(probe.result)

\* the call of the second example has returned false
C22_Witness ==
  /\ probe.op = "checkUTurn"
  /\ probe.qMinus = Pt(0 - Scale, 0) /\ probe.qPlus = Pt(Scale, 0)
  /\ probe.pMinus = Pt(Scale, 0) /\ probe.pPlus = Pt(0 - Scale, 0)
  /\ probe.result = Some(FALSE)

C24_StepTerminates ==
  /\ [](probe.op \in {"nutsStep", "nutsStepDone"} =>
          /\ probe.st.j <= algorithm.maxTreeDepth
          /\ probe.leapfrogs <= 2 ^ algorithm.maxTreeDepth - 1
          /\ ~IsNull(probe.last) =>
               LET l == Val(probe.last)
               IN /\ l.st.s
                  /\ l.st.j <= algorithm.maxTreeDepth - 1
                  /\ probe.st.j = l.st.j + 1
                  /\ l.tree.nAlphaPrime >= 1
                  /\ l.tree.nAlphaPrime <= 2 ^ l.st.j
                  /\ probe.st.s <=>
                       (l.tree.sPrime /\ CheckUTurn(probe.st.qMinus, probe.st.qPlus,
                                                    probe.st.pMinus, probe.st.pPlus)))
  /\ <>(probe.op = "nutsStepDone")

\* a step with maxTreeDepth = 3 has returned after three doublings and seven
\* leapfrog steps
C24_Witness ==
  /\ probe.op = "nutsStepDone"
  /\ algorithm.maxTreeDepth = 3
  /\ probe.st.j = 3
  /\ probe.leapfrogs = 7
  /\ Len(algorithm.chain) = 2

\* C25: a subtree built by buildTree at depth j >= 1 is either its first
\* half-tree as returned, when that half stopped (the second half is not
\* built), or the combination of two half-trees of depth j - 1, the second
\* starting at the first one's outer end; its continue flag is then true if
\* and only if both halves returned continue and the combined boundary
\* (qMinus, pMinus, qPlus, pPlus) passes the U-turn test.
C25_SubtreeStopFlag ==
  (/\ probe.op \in {"nutsStep", "nutsStepDone"}
   /\ ~IsNull(probe.last)
   /\ Val(probe.last).st.j >= 1) =>
    LET l == Val(probe.last)
        j == l.st.j
        q == IF l.v = -1 THEN l.st.qMinus ELSE l.st.qPlus
        p == IF l.v = -1 THEN l.st.pMinus ELSE l.st.pPlus
    IN \E t1 \in BuildTree(algorithm, q, p, probe.logSlice, l.v, j - 1, probe.H0) :
         IF ~t1.sPrime
         THEN /\ l.tree = t1
              /\ ~l.tree.sPrime
              /\ l.tree.nAlphaPrime <= 2 ^ (j - 1)
         ELSE \E t2 \in BuildTree(algorithm,
                                  IF l.v = -1 THEN t1.qMinus ELSE t1.qPlus,
                                  IF l.v = -1 THEN t1.pMinus ELSE t1.pPlus,
                                  probe.logSlice, l.v, j - 1, probe.H0) :
                /\ l.tree.qMinus = (IF l.v = -1 THEN t2.qMinus ELSE t1.qMinus)
                /\ l.tree.pMinus = (IF l.v = -1 THEN t2.pMinus ELSE t1.pMinus)
                /\ l.tree.qPlus = (IF l.v = 1 THEN t2.qPlus ELSE t1.qPlus)
                /\ l.tree.pPlus = (IF l.v = 1 THEN t2.pPlus ELSE t1.pPlus)
                /\ l.tree.nAlphaPrime = t1.nAlphaPrime + t2.nAlphaPrime
                /\ l.tree.sPrime <=>
                     (/\ t1.sPrime
                      /\ t2.sPrime
                      /\ CheckUTurn(l.tree.qMinus, l.tree.qPlus,
                                    l.tree.pMinus, l.tree.pPlus))

\* a subtree of depth 2 with the default deltaMax: both halves were built (four
\* leapfrog steps, none diverging) and the combined boundary made a U-turn
C25_Witness ==
  /\ probe.op = "nutsStep"
  /\ ~IsNull(probe.last)
  /\ Val(probe.last).st.j = 2
  /\ algorithm.deltaMax = DefaultDeltaMax
  /\ Val(probe.last).tree.nAlphaPrime = 4
  /\ ~Val(probe.last).tree.sPrime
  /\ ~CheckUTurn(Val(probe.last).tree.qMinus, Val(probe.last).tree.qPlus,
                 Val(probe.last).tree.pMinus, Val(probe.last).tree.pPlus)

\* C26 as stated: a Gibbs step from a state where the density is 0 at every
\* grid point of the row appends one entry to the chain, and its conditional
\* draw of x is the fallback value of sampleConditionalX, the midpoint
\* xMax - dx / 2 of the last bin.
C26_ZeroDensityMidpoint ==
  [][ (algorithm.kind = "gibbs" /\ hist'.steps = hist.steps + 1) =>
        LET b == Bounds(algorithm.distribution)
            n == algorithm.gridResolution
            dx == (b.xMax - b.xMin) \div n
            total == DensityTotal(algorithm.distribution, "x", Last(algorithm.chain).y,
                                  b.xMin, 0, n, dx)
        IN /\ Len(algorithm'.chain) = Len(algorithm.chain) + 1
           /\ total = 0 => Last(algorithm'.chain).x = b.xMax - dx \div 2
    ]_vars

\* C26: a Gibbs step from a state where the density is 0 at every grid point
\* of the row pushes its four events and appends one entry to the chain; its
\* conditional draw of x lies in the first bin, xMin <= x < xMin + dx, and so
\* is not the fallback value xMax - dx / 2; likewise for y when the density is
\* 0 along the whole column of the new x.
C26_ZeroDensityFirstBin ==
  [][ (algorithm.kind = "gibbs" /\ hist'.steps = hist.steps + 1) =>
        LET b == Bounds(algorithm.distribution)
            n == algorithm.gridResolution
            dx == (b.xMax - b.xMin) \div n
            dy == (b.yMax - b.yMin) \div n
            next == Last(algorithm'.chain)
            totalX == DensityTotal(algorithm.distribution, "x", Last(algorithm.chain).y,
                                   b.xMin, 0, n, dx)
            totalY == DensityTotal(algorithm.distribution, "y", next.x,
                                   b.yMin, 0, n, dy)
        IN /\ Len(algorithm'.chain) = Len(algorithm.chain) + 1
           /\ Len(hist'.events) = 4
           /\ totalX = 0 =>
                /\ b.xMin <= next.x /\ next.x < b.xMin + dx
                /\ next.x # b.xMax - dx \div 2
           /\ totalY = 0 =>
                /\ b.yMin <= next.y /\ next.y < b.yMin + dy
                /\ next.y # b.yMax - dy \div 2
    ]_vars

\* a Gibbs step from (0, 40) has completed with x drawn in the first bin
C26_Witness ==
  /\ algorithm.kind = "gibbs"
  /\ hist.steps = 1
  /\ hist.arg = Some(Pt(0, 40 * Scale))
  /\ Len(algorithm.chain) = 2
  /\ algorithm.chain[1] = Pt(0, 40 * Scale)
  /\ algorithm.chain[2].x >= 0 - 4 * Scale
  /\ algorithm.chain[2].x < 0 - 4 * Scale + (8 * Scale) \div algorithm.gridResolution
  /\ Len(hist.events) = 4

C28_NoStepWhilePaused ==
  [][ /\ (~isRunning /\ hist'.steps = hist.steps + 1) =>
           /\ isRunning'
           /\ timers'.timeouts = timers.timeouts + 1
      /\ (~isRunning /\ isRunning') => hist'.steps = hist.steps + 1
      /\ ~isRunning' =>
           /\ hist'.steps # hist.steps + 1
           /\ totalSamples' <= totalSamples
           /\ Len(algorithm'.chain) <= Len(algorithm.chain)
    ]_vars

\* play, pause within the delay, then the timeout and its frame have run: one
\* step was made, nothing is pending, and the frame id the timeout stored after
\* the pause is still in animationId
C28_Witness ==
  /\ ~isRunning
  /\ hist.steps = 1
  /\ totalSamples = 1
  /\ timers.timeouts = 0
  /\ Len(timers.frames) = 0
  /\ animationId = Some(1)

\* C29: with an algorithm and a distribution bound, the snapshot's current
\* position is the chain's only entry right after initialize or
\* setStartPosition, and after every step it is the state that step started
\* from, the chain's second-to-last entry; a position accepted by the step is
\* held as pending until the next fold.
C29_PositionLagsChain ==
  (HasAlgorithm /\ distribution # "null" /\ hist.reset) =>
    LET chain == algorithm.chain
    IN IF hist.steps = 0
       THEN /\ Len(chain) = 1
            /\ visualizer.currentPosition = Some(chain[1])
            /\ IsNull(visualizer.pendingPosition)
       ELSE /\ visualizer.currentPosition = Some(chain[Len(chain) - 1])
            /\ Last(chain) # chain[Len(chain) - 1] =>
                 visualizer.pendingPosition = Some(Last(chain))

\* two accepted steps: the snapshot shows the first accepted position while the
\* chain already ends with the second, which is pending
C29_Witness ==
  /\ HasAlgorithm /\ distribution # "null"
  /\ hist.steps = 2
  /\ Len(algorithm.chain) = 3
  /\ algorithm.chain[2] # algorithm.chain[1]
  /\ algorithm.chain[3] # algorithm.chain[2]
  /\ visualizer.currentPosition = Some(algorithm.chain[2])
  /\ visualizer.pendingPosition = Some(algorithm.chain[3])

\* C30: Simulation.step() does nothing unless an algorithm and a distribution
\* are both bound and the chain is not empty: from a state where the sampler
\* cannot step, no transition increments totalSamples; hence totalSamples is
\* the chain's length minus one whenever the chain is not empty.
C30_StepNoOpUnlessBound ==
  /\ []((HasAlgorithm /\ Len(algorithm.chain) > 0) =>
          totalSamples = Len(algorithm.chain) - 1)
  /\ [][ (~HasAlgorithm \/ CannotStep(algorithm)) =>
           totalSamples' # totalSamples + 1 ]_vars

====
